---------------------------- MODULE Spec2Model ----------------------------
(***************************************************************************)
(* Savegame component protocol of the AGS engine                           *)
(* (Engine/game/savegame_components.cpp): the tagged binary container,     *)
(* the handler registry, the content assertion policy, the per-component   *)
(* serializers and the stream orchestrator (WriteAllCommon / ReadAll).     *)
(*                                                                         *)
(* A stream is a sequence of bytes (0..255); positions are 0-based byte    *)
(* offsets, as Stream::GetPosition() reports them.                         *)
(***************************************************************************)
EXTENDS Integers, Sequences, FiniteSets, TLC

VARIABLES
    game,       \* the live game state (global arrays of the engine)
    saved,      \* the in-memory state and mask of the last WriteAllCommon
    stream,     \* the bytes of the save stream
    tamper,     \* what was altered in the stream after it was written
    rd,         \* the ReadAll in progress: position, helper, result
    aflags,     \* content assertions alone: the restoration flags accumulator
    acall       \* content assertions alone: the last assertion call and its outcome

vars == <<game, saved, stream, tamper, rd, aflags, acall>>

----------------------------------------------------------------------------
(* Bytes and characters                                                    *)

\* printable ASCII, code 32 first
Ascii ==
    <<" ", "!", "dquote", "#", "$", "%", "&", "'", "(", ")", "*", "+", ",", "-", ".", "/",
      "0", "1", "2", "3", "4", "5", "6", "7", "8", "9", ":", ";", "<", "=", ">", "?",
      "@", "A", "B", "C", "D", "E", "F", "G", "H", "I", "J", "K", "L", "M", "N", "O",
      "P", "Q", "R", "S", "T", "U", "V", "W", "X", "Y", "Z", "[", "bslash", "]", "^", "_",
      "bquote", "a", "b", "c", "d", "e", "f", "g", "h", "i", "j", "k", "l", "m", "n", "o",
      "p", "q", "r", "s", "t", "u", "v", "w", "x", "y", "z", "{", "|", "}", "~">>

Ord(ch) == 31 + (CHOOSE i \in 1..Len(Ascii) : Ascii[i] = ch)

\* the bytes of a C string given as a tuple of one-character strings
Str(chars) == [i \in 1..Len(chars) |-> Ord(chars[i])]

LT == Ord("<")
GT == Ord(">")
SLASH == Ord("/")

RECURSIVE Flatten(_)
Flatten(seqs) == IF seqs = <<>> THEN <<>> ELSE Head(seqs) \o Flatten(Tail(seqs))

Min(a, b) == IF a < b THEN a ELSE b
Max(a, b) == IF a > b THEN a ELSE b

\* F applied to the value of e, which is computed once
Once(F(_), e) == CHOOSE r \in {F(x) : x \in {e}} : TRUE

----------------------------------------------------------------------------
(* Integers on the wire: little-endian two's complement                    *)

\* the four bytes of a non-negative value below 2^31
Bytes31(u) == <<u % 256, (u \div 256) % 256, (u \div 65536) % 256, (u \div 16777216) % 256>>

\* Stream::WriteInt32
WriteInt32(v) ==
    IF v >= 0 THEN Bytes31(v)
    ELSE LET b == Bytes31((v + 2147483647) + 1) IN <<b[1], b[2], b[3], b[4] + 128>>

\* Stream::WriteInt64, of a value that fits 32 bits: the sign is extended
WriteInt64(v) ==
    WriteInt32(v) \o (IF v >= 0 THEN <<0, 0, 0, 0>> ELSE <<255, 255, 255, 255>>)

\* Stream::WriteInt8 / WriteBool
WriteInt8(v) == <<v % 256>>
WriteBool(b) == <<IF b THEN 1 ELSE 0>>

\* a read past the end of the stream yields no bytes: the value's missing
\* bytes stay zero and the position stops at the end
ByteAt(s, pos) == IF pos >= 0 /\ pos < Len(s) THEN s[pos + 1] ELSE 0
AdvPos(s, pos, n) == Min(pos + n, Max(Len(s), pos))

\* Stream::EOS
EOS(s, pos) == pos >= Len(s)

\* Stream::ReadByte: -1 at the end of the stream
ReadByte(s, pos) == IF pos < Len(s) THEN s[pos + 1] ELSE -1

\* Stream::ReadInt8, as the signed char it is compared as
ReadInt8(s, pos) == LET b == ByteAt(s, pos) IN IF b >= 128 THEN b - 256 ELSE b
ReadBool(s, pos) == ByteAt(s, pos) # 0

\* Stream::ReadInt32
ReadInt32(s, pos) ==
    LET b3 == ByteAt(s, pos + 3)
    IN  ByteAt(s, pos) + 256 * ByteAt(s, pos + 1) + 65536 * ByteAt(s, pos + 2)
        + 16777216 * (IF b3 >= 128 THEN b3 - 256 ELSE b3)

MaxInt32 == 2147483647
MinInt32 == -2147483647 - 1

\* the 64-bit value of two 32-bit halves; a value outside 32 bits is kept
\* as the nearest 32-bit one (it is only compared with and added to stream
\* offsets)
Int64Of(lo, hi) ==
    IF hi = 0 THEN (IF lo >= 0 THEN lo ELSE MaxInt32)
    ELSE IF hi = -1 THEN (IF lo < 0 THEN lo ELSE MinInt32)
    ELSE IF hi > 0 THEN MaxInt32 ELSE MinInt32

\* Stream::ReadInt64
ReadInt64(s, pos) == Int64Of(ReadInt32(s, pos), ReadInt32(s, pos + 4))

\* Stream::Seek: the target is kept inside the stream
SeekTo(s, target) == Max(0, Min(target, Len(s)))

\* comparison of two values as uint32_t
UGt(a, b) == IF (a < 0) = (b < 0) THEN a > b ELSE a < 0
ULt(a, b) == UGt(b, a)

\* an output stream: the bytes written so far and the write position
NewOut == [buf |-> <<>>, pos |-> 0]

\* Stream::Write at the current position, over what is there
Put(out, bytes) ==
    LET n == Len(bytes)
        old == out.buf
        upto == Max(Len(old), out.pos + n)
    IN  [buf |-> [i \in 1..upto |->
                    IF i > out.pos /\ i <= out.pos + n THEN bytes[i - out.pos] ELSE old[i]],
         pos |-> out.pos + n]

\* Stream::Seek(pos, kSeekBegin) and Seek(0, kSeekEnd) on the output
SeekOut(out, pos) == [out EXCEPT !.pos = pos]
SeekOutEnd(out) == [out EXCEPT !.pos = Len(out.buf)]

----------------------------------------------------------------------------
(* Binary tag framework                                                    *)

\* Tag used to mark the beginning of a save component list
ComponentListTag == Str(<<"C", "o", "m", "p", "o", "n", "e", "n", "t", "s">>)

\* Writes a opening or closing tag for a save component
WriteFormatTag(tag, open) ==
    (IF open THEN <<LT>> ELSE <<LT, SLASH>>) \o tag \o <<GT>>

RECURSIVE ReadTagChars(_, _, _)
ReadTagChars(s, pos, acc) ==
    IF EOS(s, pos) THEN [ok |-> FALSE, tag |-> acc, pos |-> pos]
    ELSE IF s[pos + 1] = GT THEN [ok |-> TRUE, tag |-> acc, pos |-> pos + 1]
    ELSE ReadTagChars(s, pos + 1, Append(acc, s[pos + 1]))

\* (variant: the second byte of a closing tag is passed over unexamined)
ReadFormatTag_AnySecond(s, pos, tag, open) ==
    LET p1 == AdvPos(s, pos, 1)
        p2 == AdvPos(s, p1, 1)
    IN  IF ReadByte(s, pos) # LT THEN [ok |-> FALSE, tag |-> tag, pos |-> p1]
        ELSE ReadTagChars(s, IF open THEN p1 ELSE p2, <<>>)

\* Reads a opening or closing save component tag and asserts its format;
\* tag is the caller's string, left as it is when a prefix byte is wrong
ReadFormatTag(s, pos, tag, open) ==
    LET p1 == AdvPos(s, pos, 1)
        p2 == AdvPos(s, p1, 1)
    IN  IF ReadByte(s, pos) # LT THEN [ok |-> FALSE, tag |-> tag, pos |-> p1]
        ELSE IF ~open /\ ReadByte(s, p1) # SLASH THEN [ok |-> FALSE, tag |-> tag, pos |-> p2]
        ELSE ReadTagChars(s, IF open THEN p1 ELSE p2, <<>>)

\* the comparison of AssertFormatTag that takes any name for the expected one
TagMatch_AnyName(r, tag) == [ok |-> r.ok, pos |-> r.pos]

\* the result of AssertFormatTag from that of ReadFormatTag: the tag must be
\* well-formed and its name the expected one
TagMatch(r, tag) == [ok |-> r.ok /\ r.tag = tag, pos |-> r.pos]

\* Reads a component tag and asserts that it matches expected name
AssertFormatTag(s, pos, tag, open) ==
    Once(LAMBDA r : TagMatch(r, tag), ReadFormatTag(s, pos, <<>>, open))

\* the result of AssertFormatTagStrict from that of AssertFormatTag: the
\* error on failure is kSvgErr_InconsistentFormat
TagMatchStrict(t) ==
    [ok |-> t.ok, pos |-> t.pos, err |-> IF t.ok THEN "None" ELSE "InconsistentFormat"]

\* Reads a component tag and asserts that it matches expected name; formats
\* the error
AssertFormatTagStrict(s, pos, tag, open) == TagMatchStrict(AssertFormatTag(s, pos, tag, open))


----------------------------------------------------------------------------
(* Content assertion policy                                                *)

\* SaveRestorationFlags, as the set of the bits that are set
kSaveRestore_ClearData == "ClearData"
kSaveRestore_AllowMismatchExtra == "AllowMismatchExtra"
kSaveRestore_AllowMismatchLess == "AllowMismatchLess"
kSaveRestore_ExtraDataInSave == "ExtraDataInSave"
kSaveRestore_MissingDataInSave == "MissingDataInSave"

PermissionBits ==
    {kSaveRestore_ClearData, kSaveRestore_AllowMismatchExtra, kSaveRestore_AllowMismatchLess}
ResultBits == {kSaveRestore_ExtraDataInSave, kSaveRestore_MissingDataInSave}

\* (variant: a count equal to the maximum is refused too)
AssertCompatLimit_Below(count, max_count) ==
    IF count >= max_count
    THEN [ok |-> FALSE, err |-> "IncompatibleEngine"]
    ELSE [ok |-> TRUE, err |-> "None"]

\* Asserts that the read data count does not exceed engine capabilities
AssertCompatLimit(count, max_count) ==
    IF count > max_count
    THEN [ok |-> FALSE, err |-> "IncompatibleEngine"]
    ELSE [ok |-> TRUE, err |-> "None"]

\* (variant: only the upper end of the range is asserted)
AssertCompatRange_NoFloor(value, min_value, max_value) ==
    IF value > max_value
    THEN [ok |-> FALSE, err |-> "IncompatibleEngine"]
    ELSE [ok |-> TRUE, err |-> "None"]

\* Asserts that the read data range does not exceed engine capabilities
AssertCompatRange(value, min_value, max_value) ==
    IF value < min_value \/ value > max_value
    THEN [ok |-> FALSE, err |-> "IncompatibleEngine"]
    ELSE [ok |-> TRUE, err |-> "None"]

\* HandleGameContentMismatch with "extra in save" never tolerated
HandleGameContentMismatch_NoExtra(new_val, original_val, restore_flags) ==
    IF UGt(new_val, original_val)
       \/ (ULt(new_val, original_val) /\ kSaveRestore_AllowMismatchLess \notin restore_flags)
    THEN [ok |-> FALSE, err |-> "GameContentAssertion", flags |-> restore_flags]
    ELSE LET f == restore_flags \cup {kSaveRestore_MissingDataInSave}
         IN  IF kSaveRestore_ClearData \notin f
             THEN [ok |-> FALSE, err |-> "GameContentAssert_RequireClearReload", flags |-> f]
             ELSE [ok |-> TRUE, err |-> "None", flags |-> f]

\* HandleGameContentMismatch that tolerates fewer data without ClearData
HandleGameContentMismatch_NoClearTest(new_val, original_val, restore_flags) ==
    IF (UGt(new_val, original_val) /\ kSaveRestore_AllowMismatchExtra \notin restore_flags)
       \/ (ULt(new_val, original_val) /\ kSaveRestore_AllowMismatchLess \notin restore_flags)
    THEN [ok |-> FALSE, err |-> "GameContentAssertion", flags |-> restore_flags]
    ELSE IF UGt(new_val, original_val)
    THEN [ok |-> TRUE, err |-> "None",
          flags |-> restore_flags \cup {kSaveRestore_ExtraDataInSave}]
    ELSE [ok |-> TRUE, err |-> "None",
          flags |-> restore_flags \cup {kSaveRestore_MissingDataInSave}]

\* HandleGameContentMismatch that records a mismatch it does not allow
HandleGameContentMismatch_MarkOnFailure(new_val, original_val, restore_flags) ==
    IF UGt(new_val, original_val) /\ kSaveRestore_AllowMismatchExtra \notin restore_flags
    THEN [ok |-> FALSE, err |-> "GameContentAssertion",
          flags |-> restore_flags \cup {kSaveRestore_ExtraDataInSave}]
    ELSE IF ULt(new_val, original_val) /\ kSaveRestore_AllowMismatchLess \notin restore_flags
    THEN [ok |-> FALSE, err |-> "GameContentAssertion",
          flags |-> restore_flags \cup {kSaveRestore_MissingDataInSave}]
    ELSE IF UGt(new_val, original_val)
    THEN [ok |-> TRUE, err |-> "None",
          flags |-> restore_flags \cup {kSaveRestore_ExtraDataInSave}]
    ELSE LET f == restore_flags \cup {kSaveRestore_MissingDataInSave}
         IN  IF kSaveRestore_ClearData \notin f
             THEN [ok |-> FALSE, err |-> "GameContentAssert_RequireClearReload", flags |-> f]
             ELSE [ok |-> TRUE, err |-> "None", flags |-> f]

\* Handles save-game mismatch; chosen action depends on SaveRestorationFlags.
\* The counts are uint32_t.
HandleGameContentMismatch(new_val, original_val, restore_flags) ==
    IF (UGt(new_val, original_val) /\ kSaveRestore_AllowMismatchExtra \notin restore_flags)
       \/ (ULt(new_val, original_val) /\ kSaveRestore_AllowMismatchLess \notin restore_flags)
    THEN [ok |-> FALSE, err |-> "GameContentAssertion", flags |-> restore_flags]
    ELSE IF UGt(new_val, original_val)
    THEN [ok |-> TRUE, err |-> "None",
          flags |-> restore_flags \cup {kSaveRestore_ExtraDataInSave}]
    ELSE LET f == restore_flags \cup {kSaveRestore_MissingDataInSave}
         IN  IF kSaveRestore_ClearData \notin f
             THEN [ok |-> FALSE, err |-> "GameContentAssert_RequireClearReload", flags |-> f]
             ELSE [ok |-> TRUE, err |-> "None", flags |-> f]

\* Handles save-game mismatch where save has an extra object that the game does not
\* (variant: the extra component is let through)
HandleExtraGameComponent_Tolerated == [ok |-> TRUE, err |-> "None"]

HandleExtraGameComponent == [ok |-> FALSE, err |-> "GameContentAssertion"]

\* Handles save-game mismatch where save is missing an object that the game has
\* (variant: the missing component is let through)
HandleMissingGameComponent_Tolerated == [ok |-> TRUE, err |-> "None"]

HandleMissingGameComponent == [ok |-> FALSE, err |-> "GameContentAssertion"]

\* AssertGameContent that forgets to report the count it read
AssertGameContent_NoCount(new_val, original_val, restore_flags, record_count) ==
    IF new_val = original_val
    THEN [ok |-> TRUE, err |-> "None", flags |-> restore_flags, count |-> record_count]
    ELSE HandleGameContentMismatch(new_val, original_val, restore_flags)
            @@ [count |-> record_count]

\* Tests a match between game's and save's data count, handles mismatch using
\* SaveRestorationFlags; record_count is the caller's counter, overwritten
AssertGameContent(new_val, original_val, restore_flags, record_count) ==
    IF new_val = original_val
    THEN [ok |-> TRUE, err |-> "None", flags |-> restore_flags, count |-> new_val]
    ELSE HandleGameContentMismatch(new_val, original_val, restore_flags)
            @@ [count |-> new_val]

\* Tests a match between game's and save's data count, uses default mismatch
\* handling; dummy_flags and dummy_count are its uninitialized locals
AssertGameContentDefault(new_val, original_val, dummy_flags, dummy_count) ==
    LET r == AssertGameContent(new_val, original_val, dummy_flags, dummy_count)
    IN  [ok |-> r.ok, err |-> r.err]

\* the same for the content of one object (obj_id is named in the message only)
AssertGameObjectContent(new_val, original_val, obj_id, restore_flags, record_count) ==
    IF new_val = original_val
    THEN [ok |-> TRUE, err |-> "None", flags |-> restore_flags, count |-> new_val]
    ELSE HandleGameContentMismatch(new_val, original_val, restore_flags)
            @@ [count |-> new_val]

\* the same for the content of an object of an object
AssertGameObjectContent2(new_val, original_val, obj1_id, obj2_id, restore_flags, record_count) ==
    IF new_val = original_val
    THEN [ok |-> TRUE, err |-> "None", flags |-> restore_flags, count |-> new_val]
    ELSE HandleGameContentMismatch(new_val, original_val, restore_flags)
            @@ [count |-> new_val]

----------------------------------------------------------------------------
(* Engine capacities and data format versions                              *)

\* engine capacities, scaled down (common_defines.h has MAX_ROOMS 300)
MAX_ROOMS == 2
MAX_DYNAMIC_SURFACES == 2
TOTAL_AUDIO_CHANNELS == 3
MAX_GAME_CHANNELS == 2
NUM_SPEECH_CHANS == 1
MAX_ROOM_BGFRAMES == 2
MAX_ROOM_REGIONS == 1
MAX_WALK_AREAS == 1
\* number of palette entries written by WriteGameState (256 in the source)
PaletteCount == 1

\* sprite flags, each the value of its bit
SPF_DYNAMICALLOC == 4
SPF_ALPHACHANNEL == 16
SPF_OBJECTOWNED == 256

\* flags of the saved viewports and cameras
kSvgGameAutoRoomView == 1
kSvgCamPosLocked == 1
kSvgViewportVisible == 1

\* general savegame version at which component sizes became 64-bit
kSvgVersion_Cmp_64bit == 10

kGSSvgVersion_Initial == 0
kGSSvgVersion_350_10 == 3
kGSSvgVersion_361_14 == 5
kAudioSvgVersion_Initial == 0
kAudioSvgVersion_35026 == 1
kAudioSvgVersion_36009 == 2
kCharSvgVersion_350 == 1
kCharSvgVersion_36109 == 3
kCharSvgVersion_36115 == 4
kGuiSvgVersion_Initial == 0
kGuiSvgVersion_36202 == 6
kCursorSvgVersion_Initial == 0
kCursorSvgVersion_36016 == 1
kOverSvgVersion_Initial == 0
kOverSvgVersion_36108 == 4
kScriptModulesSvgVersion_Initial == 0
kScriptModulesSvgVersion_36200 == 3060200
kRoomStatSvgVersion_350_Mismatch == 0
kRoomStatSvgVersion_350 == 1
kRoomStatSvgVersion_36109 == 5
kMoveSvgVersion_350 == 1
kMoveSvgVersion_36109 == 2
kPluginSvgVersion_Initial == 0
kPluginSvgVersion_36115 == 1

\* the low 31 bits of a 32-bit value
Low31(v) == IF v >= 0 THEN v ELSE (v + MaxInt32) + 1

\* (flags & bit) != 0, for a bit below the sign bit
TestBit(flags, bit) == (Low31(flags) \div bit) % 2 = 1

\* (flags & match_flags) == match_flags, match_flags given as its set of bits
HasAllBits(flags, match_flags) == \A b \in match_flags : TestBit(flags, b)

----------------------------------------------------------------------------
(* The game state that the components save                                 *)

\* sizes of the modelled game
NumCharacters == 2
NumModules == 2
NumSeeds == 2
\* the first move list of a character (room objects come first)
CHMLSOFFS == 1
TOTAL_AUDIO_CHANNELS_v320 == 2
MAX_GAME_CHANNELS_v320 == 1

\* the k-th value of the state populated from a seed; every field of a
\* populated state holds a value of its own
Val(seed, k) == seed * 1000 + k

\* a script module name
ModuleName(i) == Str(<<"M">>) \o <<Ord("0") + i>>

\* An in-memory game state, every saved field populated from the seed.
\* Fixed arrays have the sizes of the loaded game; a bitmap is the number
\* that stands for its pixels, 0 is no bitmap.
NewGame(seed, legacy) ==
    [ legacy272 |-> legacy,     \* loaded_game_file_version <= kGameVersion_272
      \* Game State
      base |-> Val(seed, 1),
      palette |-> [i \in 1..PaletteCount |-> Val(seed, 10 + i)],
      intrVars |-> IF legacy THEN <<Val(seed, 2)>> ELSE <<>>,
      play |-> Val(seed, 3),
      frames_per_second |-> 40 + seed,
      loopcounter |-> Val(seed, 4),
      ifacepopped |-> seed - 2,
      game_paused |-> seed % 2,
      cur_mode |-> seed,
      cur_cursor |-> seed + 1,
      mouse_on_iface |-> -1,
      autoRoomViewport |-> seed % 2 = 1,
      cameras |-> <<[locked |-> seed % 2 = 0, Left |-> Val(seed, 5), Top |-> Val(seed, 6),
                     Width |-> 320, Height |-> 200]>>,
      viewports |-> <<[visible |-> TRUE, Left |-> 0, Top |-> seed, Width |-> 320,
                       Height |-> 200, ZOrder |-> seed, CamID |-> 0]>>,
      \* Audio
      audioClipTypes |-> <<[type |-> Val(seed, 20), vol |-> 50 + seed]>>,
      numGameChannels |-> MAX_GAME_CHANNELS,
      channels |-> [i \in 1..TOTAL_AUDIO_CHANNELS |->
                      IF i = 2
                      THEN [clip |-> seed, pos |-> Val(seed, 21), priority |-> 50,
                            repeat |-> TRUE, vol255 |-> 255 - seed, vol100 |-> 100 - seed,
                            pan |-> -seed, speed |-> 1000 + seed, xSource |-> seed,
                            ySource |-> 2 * seed, maxDist |-> Val(seed, 22)]
                      ELSE [clip |-> -1, pos |-> 0, priority |-> 0, repeat |-> FALSE,
                            vol255 |-> 0, vol100 |-> 0, pan |-> 0, speed |-> 0,
                            xSource |-> 0, ySource |-> 0, maxDist |-> 0]],
      crossFading |-> seed,
      crossFadeVolumePerStep |-> seed + 2,
      crossFadeStep |-> seed + 3,
      crossFadeVolumeAtStart |-> seed + 4,
      current_music_type |-> seed + 5,
      ambient |-> [i \in 1..MAX_GAME_CHANNELS |->
                     [channel |-> IF i = MAX_GAME_CHANNELS THEN i - 1 ELSE 0,
                      num |-> Val(seed, 30 + i)]],
      \* Characters (intrChar has one event per character)
      chars |-> [i \in 1..NumCharacters |->
                   [info |-> Val(seed, 40 + i), extra |-> Val(seed, 50 + i),
                    props |-> Val(seed, 60 + i), timesRun |-> <<seed + i>>]],
      \* Dialogs
      dialog |-> <<Val(seed, 70)>>,
      \* GUI
      guis |-> <<Val(seed, 71)>>,
      guibuts |-> <<Val(seed, 72)>>,
      guilabels |-> <<Val(seed, 73)>>,
      guiinv |-> <<Val(seed, 74)>>,
      guislider |-> <<Val(seed, 75)>>,
      guitext |-> <<Val(seed, 76)>>,
      guilist |-> <<Val(seed, 77)>>,
      animbuts |-> IF seed % 2 = 1 THEN <<Val(seed, 78)>> ELSE <<>>,
      \* Inventory Items
      invinfo |-> <<[info |-> Val(seed, 80), props |-> Val(seed, 81), timesRun |-> <<seed>>]>>,
      \* Mouse Cursors
      mcurs |-> <<Val(seed, 82)>>,
      \* Views: views[v][l][f] is a frame
      views |-> <<  <<  <<[sound |-> seed, pic |-> Val(seed, 83)]>>  >>  >>,
      \* sprite slots 0, 1, 2, ...: a static one, a dynamic one, an object-owned one
      sprites |-> <<[flags |-> 0, bitmap |-> 0],
                    [flags |-> 0, bitmap |-> Val(seed, 84)],
                    [flags |-> SPF_DYNAMICALLOC + SPF_ALPHACHANNEL, bitmap |-> Val(seed, 85)],
                    [flags |-> SPF_DYNAMICALLOC + SPF_OBJECTOWNED, bitmap |-> Val(seed, 86)]>>,
      \* overlays, the one of type k in slot k (0-based); type -1 is a free slot
      overs |-> <<[type |-> 0, data |-> Val(seed, 87), bitmap |-> 0],
                  [type |-> -1, data |-> 0, bitmap |-> 0],
                  [type |-> 2, data |-> Val(seed, 88), bitmap |-> Val(seed, 89)]>>,
      \* Dynamic Surfaces
      dynamicallyCreatedSurfaces |->
          [i \in 1..MAX_DYNAMIC_SURFACES |-> IF i = 1 THEN Val(seed, 90) ELSE 0],
      \* Script Modules: data segments are bytes
      globaldata |-> <<seed, 0, 7>>,
      modules |-> [i \in 1..NumModules |->
                     [name |-> ModuleName(i), data |-> [k \in 1..i |-> (seed + k) % 256]]],
      \* Room States: room i (0-based) is rooms[i + 1]
      rooms |-> [i \in 1..MAX_ROOMS |->
                   [valid |-> i # 2, beenhere |-> i = 1, state |-> Val(seed, 91)]],
      \* Loaded Room State
      displayed_room |-> IF seed % 2 = 1 THEN 0 ELSE MAX_ROOMS,
      raw_modified |-> [i \in 1..MAX_ROOM_BGFRAMES |-> i = 1],
      bgframes |-> [i \in 1..MAX_ROOM_BGFRAMES |-> Val(seed, 92 + i)],
      raw_saved_screen |-> IF seed % 2 = 1 THEN Val(seed, 95) ELSE 0,
      regions |-> [i \in 1..MAX_ROOM_REGIONS |-> [Light |-> seed + i, Tint |-> Val(seed, 96)]],
      walkareas |-> [i \in 1..MAX_WALK_AREAS |->
                       [ScalingFar |-> 100 + seed, ScalingNear |-> 100 - seed]],
      musicVolume |-> seed,
      troom |-> Val(seed, 97),
      \* Move Lists
      mls |-> [i \in 1..(CHMLSOFFS + NumCharacters) |-> Val(seed, 100 + i)],
      \* Managed Pool
      pool |-> <<Val(seed, 98), Val(seed, 99)>>,
      \* Plugin Data
      plugindata |-> <<seed, 1>>
    ]

----------------------------------------------------------------------------
(* Serialization of the objects that the components delegate to            *)

\* WriteToSavegame / WriteForSavegame / WriteToFile / Properties::WriteValues
\* of a game object: the object's state as one 32-bit value
WriteObject(v) == WriteInt32(v)

\* serialize_bitmap
serialize_bitmap(bmp) == WriteInt32(bmp)

\* StrUtil::WriteString: the length, then the characters
WriteString(str) == WriteInt32(Len(str)) \o str

\* the concatenation of f[1], ..., f[n], each a byte sequence
Concat(f) == Flatten([i \in 1..Len(f) |-> f[i]])

----------------------------------------------------------------------------
(* Save components writers                                                 *)

WriteCameraState(cam) ==
    WriteInt32(IF cam.locked THEN kSvgCamPosLocked ELSE 0) \o WriteInt32(cam.Left) \o WriteInt32(cam.Top)
        \o WriteInt32(cam.Width) \o WriteInt32(cam.Height)

WriteViewportState(view) ==
    WriteInt32(IF view.visible THEN kSvgViewportVisible ELSE 0) \o WriteInt32(view.Left) \o WriteInt32(view.Top)
        \o WriteInt32(view.Width) \o WriteInt32(view.Height) \o WriteInt32(view.ZOrder)
        \o WriteInt32(view.CamID)

WriteGameState(out, g) ==
    Put(out,
        WriteObject(g.base)
        \o Concat([i \in 1..Len(g.palette) |-> WriteInt32(g.palette[i])])
        \o (IF g.legacy272
            THEN WriteInt32(Len(g.intrVars))
                 \o Concat([i \in 1..Len(g.intrVars) |-> WriteObject(g.intrVars[i])])
            ELSE <<>>)
        \o WriteObject(g.play)
        \o WriteInt32(g.frames_per_second) \o WriteInt32(g.loopcounter)
        \o WriteInt32(g.ifacepopped) \o WriteInt32(g.game_paused)
        \o WriteInt32(g.cur_mode) \o WriteInt32(g.cur_cursor) \o WriteInt32(g.mouse_on_iface)
        \o WriteInt32(IF g.autoRoomViewport THEN kSvgGameAutoRoomView ELSE 0)
        \o WriteInt32(Len(g.cameras))
        \o Concat([i \in 1..Len(g.cameras) |-> WriteCameraState(g.cameras[i])])
        \o WriteInt32(Len(g.viewports))
        \o Concat([i \in 1..Len(g.viewports) |-> WriteViewportState(g.viewports[i])]))

WriteAudioChannel(ch) ==
    IF ch.clip >= 0
    THEN WriteInt32(ch.clip) \o WriteInt32(ch.pos) \o WriteInt32(ch.priority)
         \o WriteInt32(IF ch.repeat THEN 1 ELSE 0) \o WriteInt32(ch.vol255) \o WriteInt32(0)
         \o WriteInt32(ch.vol100) \o WriteInt32(ch.pan) \o WriteInt32(ch.speed)
         \o WriteInt32(ch.xSource) \o WriteInt32(ch.ySource) \o WriteInt32(ch.maxDist)
    ELSE WriteInt32(-1)

\* AmbientSound::WriteToFile
WriteAmbient(a) == WriteInt32(a.channel) \o WriteInt32(a.num)

WriteAudio(out, g) ==
    Put(out,
        WriteInt32(Len(g.audioClipTypes))
        \o WriteInt8(TOTAL_AUDIO_CHANNELS) \o WriteInt8(g.numGameChannels) \o <<0, 0>>
        \o Concat([i \in 1..Len(g.audioClipTypes) |->
                     WriteObject(g.audioClipTypes[i].type) \o WriteInt32(g.audioClipTypes[i].vol)])
        \o Concat([i \in 1..TOTAL_AUDIO_CHANNELS |-> WriteAudioChannel(g.channels[i])])
        \o WriteInt32(g.crossFading) \o WriteInt32(g.crossFadeVolumePerStep)
        \o WriteInt32(g.crossFadeStep) \o WriteInt32(g.crossFadeVolumeAtStart)
        \o WriteInt32(g.current_music_type)
        \o Concat([i \in 1..g.numGameChannels |-> WriteAmbient(g.ambient[i])]))

WriteTimesRun272(timesRun) == Concat([i \in 1..Len(timesRun) |-> WriteInt32(timesRun[i])])

WriteCharacters(out, g) ==
    Put(out,
        WriteInt32(Len(g.chars))
        \o Concat([i \in 1..Len(g.chars) |->
                     WriteObject(g.chars[i].info) \o WriteObject(g.chars[i].extra)
                     \o WriteObject(g.chars[i].props)
                     \o (IF g.legacy272 THEN WriteTimesRun272(g.chars[i].timesRun) ELSE <<>>)]))

WriteDialogs(out, g) ==
    Put(out, WriteInt32(Len(g.dialog))
             \o Concat([i \in 1..Len(g.dialog) |-> WriteObject(g.dialog[i])]))

\* one of the sub-lists of the GUI component
WriteGUIList(name, list) ==
    WriteFormatTag(name, TRUE) \o WriteInt32(Len(list))
        \o Concat([i \in 1..Len(list) |-> WriteObject(list[i])])

TagGUIs == Str(<<"G", "U", "I", "s">>)
TagGUIButtons == Str(<<"G", "U", "I", "B", "u", "t", "t", "o", "n", "s">>)
TagGUILabels == Str(<<"G", "U", "I", "L", "a", "b", "e", "l", "s">>)
TagGUIInvWindows == Str(<<"G", "U", "I", "I", "n", "v", "W", "i", "n", "d", "o", "w", "s">>)
TagGUISliders == Str(<<"G", "U", "I", "S", "l", "i", "d", "e", "r", "s">>)
TagGUITextBoxes == Str(<<"G", "U", "I", "T", "e", "x", "t", "B", "o", "x", "e", "s">>)
TagGUIListBoxes == Str(<<"G", "U", "I", "L", "i", "s", "t", "B", "o", "x", "e", "s">>)
TagAnimatedButtons ==
    Str(<<"A", "n", "i", "m", "a", "t", "e", "d", "B", "u", "t", "t", "o", "n", "s">>)
TagRoomState == Str(<<"R", "o", "o", "m", "S", "t", "a", "t", "e">>)

WriteGUI(out, g) ==
    Put(out,
        WriteGUIList(TagGUIs, g.guis) \o WriteGUIList(TagGUIButtons, g.guibuts)
        \o WriteGUIList(TagGUILabels, g.guilabels) \o WriteGUIList(TagGUIInvWindows, g.guiinv)
        \o WriteGUIList(TagGUISliders, g.guislider) \o WriteGUIList(TagGUITextBoxes, g.guitext)
        \o WriteGUIList(TagGUIListBoxes, g.guilist)
        \o WriteGUIList(TagAnimatedButtons, g.animbuts))

WriteInventory(out, g) ==
    Put(out,
        WriteInt32(Len(g.invinfo))
        \o Concat([i \in 1..Len(g.invinfo) |->
                     WriteObject(g.invinfo[i].info) \o WriteObject(g.invinfo[i].props)
                     \o (IF g.legacy272 THEN WriteTimesRun272(g.invinfo[i].timesRun) ELSE <<>>)]))

WriteMouseCursors(out, g) ==
    Put(out, WriteInt32(Len(g.mcurs))
             \o Concat([i \in 1..Len(g.mcurs) |-> WriteObject(g.mcurs[i])]))

WriteViewLoop(loop) ==
    WriteInt32(Len(loop))
        \o Concat([f \in 1..Len(loop) |-> WriteInt32(loop[f].sound) \o WriteInt32(loop[f].pic)])

WriteViews(out, g) ==
    Put(out,
        WriteInt32(Len(g.views))
        \o Concat([v \in 1..Len(g.views) |->
                     WriteInt32(Len(g.views[v]))
                     \o Concat([l \in 1..Len(g.views[v]) |-> WriteViewLoop(g.views[v][l])])]))

\* the loop of WriteDynamicSpritesImpl from sprite slot i on
RECURSIVE WriteSpritesFrom(_, _, _, _, _, _)
WriteSpritesFrom(out, g, match_flags, i, count, top_index) ==
    IF i >= Len(g.sprites) THEN [out |-> out, count |-> count, top_index |-> top_index]
    ELSE IF HasAllBits(g.sprites[i + 1].flags, match_flags)
    THEN WriteSpritesFrom(
            Put(out, WriteInt32(i) \o WriteInt32(g.sprites[i + 1].flags)
                     \o serialize_bitmap(g.sprites[i + 1].bitmap)),
            g, match_flags, i + 1, count + 1, i)
    ELSE WriteSpritesFrom(out, g, match_flags, i + 1, count, top_index)

\* (variant: the stream is left after the header that was written last)
WriteDynamicSpritesImpl_NoSeekBack(out, g, match_flags) ==
    LET ref_pos == out.pos
        w == WriteSpritesFrom(Put(out, WriteInt32(0) \o WriteInt32(0)), g, match_flags, 1, 0, 1)
    IN  Put(SeekOut(w.out, ref_pos), WriteInt32(w.count) \o WriteInt32(w.top_index))

WriteDynamicSpritesImpl(out, g, match_flags) ==
    LET ref_pos == out.pos
        w == WriteSpritesFrom(Put(out, WriteInt32(0) \o WriteInt32(0)), g, match_flags, 1, 0, 1)
        end_pos == w.out.pos
    IN  SeekOut(Put(SeekOut(w.out, ref_pos), WriteInt32(w.count) \o WriteInt32(w.top_index)),
                end_pos)

WriteDynamicSprites(out, g) == WriteDynamicSpritesImpl(out, g, {SPF_DYNAMICALLOC})

WriteObjectSprites(out, g) ==
    WriteDynamicSpritesImpl(out, g, {SPF_DYNAMICALLOC, SPF_OBJECTOWNED})

\* ScreenOverlay::WriteToSavegame: the type, whether it has a bitmap of its
\* own, its state, the bitmap
WriteOverlay(over) ==
    WriteInt32(over.type) \o WriteBool(over.bitmap # 0) \o WriteObject(over.data)
        \o (IF over.bitmap # 0 THEN serialize_bitmap(over.bitmap) ELSE <<>>)

RECURSIVE WriteOverlaysFrom(_, _, _, _)
WriteOverlaysFrom(out, overs, i, valid_count) ==
    IF i > Len(overs) THEN [out |-> out, valid_count |-> valid_count]
    ELSE IF overs[i].type < 0 THEN WriteOverlaysFrom(out, overs, i + 1, valid_count)
    ELSE WriteOverlaysFrom(Put(out, WriteOverlay(overs[i])), overs, i + 1, valid_count + 1)

WriteOverlays(out, g) ==
    LET count_off == out.pos
        w == WriteOverlaysFrom(Put(out, WriteInt32(0)), g.overs, 1, 0)
    IN  SeekOutEnd(Put(SeekOut(w.out, count_off), WriteInt32(w.valid_count)))

WriteDynamicSurfaces(out, g) ==
    Put(out,
        WriteInt32(MAX_DYNAMIC_SURFACES)
        \o Concat([i \in 1..MAX_DYNAMIC_SURFACES |->
                     IF g.dynamicallyCreatedSurfaces[i] = 0
                     THEN WriteInt8(0)
                     ELSE WriteInt8(1) \o serialize_bitmap(g.dynamicallyCreatedSurfaces[i])]))

WriteScriptModules(out, g) ==
    Put(out,
        WriteInt32(Len(g.globaldata)) \o g.globaldata
        \o WriteInt32(Len(g.modules))
        \o Concat([i \in 1..Len(g.modules) |->
                     WriteString(g.modules[i].name) \o WriteInt32(Len(g.modules[i].data))
                     \o g.modules[i].data]))

WriteRoomStates(out, g) ==
    Put(out,
        WriteInt32(MAX_ROOMS)
        \o Concat([i \in 1..MAX_ROOMS |->
                     IF g.rooms[i].valid /\ g.rooms[i].beenhere
                     THEN WriteInt32(i - 1) \o WriteFormatTag(TagRoomState, TRUE)
                          \o WriteObject(g.rooms[i].state) \o WriteFormatTag(TagRoomState, FALSE)
                     ELSE WriteInt32(-1)]))

WriteThisRoom(out, g) ==
    IF g.displayed_room < 0 THEN Put(out, WriteInt32(g.displayed_room))
    ELSE LET persist == g.displayed_room < MAX_ROOMS
         IN  Put(out,
                WriteInt32(g.displayed_room)
                \o Concat([i \in 1..MAX_ROOM_BGFRAMES |->
                             WriteBool(g.raw_modified[i])
                             \o (IF g.raw_modified[i] THEN serialize_bitmap(g.bgframes[i])
                                 ELSE <<>>)])
                \o WriteBool(g.raw_saved_screen # 0)
                \o (IF g.raw_saved_screen # 0 THEN serialize_bitmap(g.raw_saved_screen) ELSE <<>>)
                \o Concat([i \in 1..MAX_ROOM_REGIONS |->
                             WriteInt32(g.regions[i].Light) \o WriteInt32(g.regions[i].Tint)])
                \o Concat([i \in 1..MAX_WALK_AREAS |->
                             WriteInt32(g.walkareas[i].ScalingFar)
                             \o WriteInt32(g.walkareas[i].ScalingNear)])
                \o WriteInt32(g.musicVolume)
                \o WriteBool(persist)
                \o (IF ~persist THEN WriteObject(g.troom) ELSE <<>>))

WriteMoveLists(out, g) ==
    Put(out, WriteInt32(Len(g.mls))
             \o Concat([i \in 1..Len(g.mls) |-> WriteObject(g.mls[i])]))

\* ccSerializeAllObjects: the number of objects, then each object
WriteManagedPool(out, g) ==
    Put(out, WriteInt32(Len(g.pool))
             \o Concat([i \in 1..Len(g.pool) |-> WriteObject(g.pool[i])]))

\* WritePluginSaveData: the length of the plugins' data, then the data
WritePluginData(out, g) == Put(out, WriteInt32(Len(g.plugindata)) \o g.plugindata)

----------------------------------------------------------------------------
(* Component handler registry                                              *)

\* SaveCmpSelection, as the set of the bits that are set
kSaveCmp_None == {}
kSaveCmp_GameState == {"GameState"}
kSaveCmp_Audio == {"Audio"}
kSaveCmp_Characters == {"Characters"}
kSaveCmp_Dialogs == {"Dialogs"}
kSaveCmp_GUI == {"GUI"}
kSaveCmp_InvItems == {"InvItems"}
kSaveCmp_Cursors == {"Cursors"}
kSaveCmp_Views == {"Views"}
kSaveCmp_DynamicSprites == {"DynamicSprites"}
kSaveCmp_Overlays == {"Overlays"}
kSaveCmp_Scripts == {"Scripts"}
kSaveCmp_Rooms == {"Rooms"}
kSaveCmp_ThisRoom == {"ThisRoom"}
kSaveCmp_Plugins == {"Plugins"}
kSaveCmp_ObjectSprites == {"ObjectSprites"}
kSaveCmp_All ==
    kSaveCmp_GameState \cup kSaveCmp_Audio \cup kSaveCmp_Characters \cup kSaveCmp_Dialogs
        \cup kSaveCmp_GUI \cup kSaveCmp_InvItems \cup kSaveCmp_Cursors \cup kSaveCmp_Views
        \cup kSaveCmp_DynamicSprites \cup kSaveCmp_Overlays \cup kSaveCmp_Scripts
        \cup kSaveCmp_Rooms \cup kSaveCmp_ThisRoom \cup kSaveCmp_Plugins

NameGameState == Str(<<"G", "a", "m", "e", " ", "S", "t", "a", "t", "e">>)
NameAudio == Str(<<"A", "u", "d", "i", "o">>)
NameCharacters == Str(<<"C", "h", "a", "r", "a", "c", "t", "e", "r", "s">>)
NameDialogs == Str(<<"D", "i", "a", "l", "o", "g", "s">>)
NameGUI == Str(<<"G", "U", "I">>)
NameInventory ==
    Str(<<"I", "n", "v", "e", "n", "t", "o", "r", "y", " ", "I", "t", "e", "m", "s">>)
NameMouseCursors == Str(<<"M", "o", "u", "s", "e", " ", "C", "u", "r", "s", "o", "r", "s">>)
NameViews == Str(<<"V", "i", "e", "w", "s">>)
NameDynamicSprites ==
    Str(<<"D", "y", "n", "a", "m", "i", "c", " ", "S", "p", "r", "i", "t", "e", "s">>)
NameOverlays == Str(<<"O", "v", "e", "r", "l", "a", "y", "s">>)
NameDynamicSurfaces ==
    Str(<<"D", "y", "n", "a", "m", "i", "c", " ", "S", "u", "r", "f", "a", "c", "e", "s">>)
NameScriptModules ==
    Str(<<"S", "c", "r", "i", "p", "t", " ", "M", "o", "d", "u", "l", "e", "s">>)
NameRoomStates == Str(<<"R", "o", "o", "m", " ", "S", "t", "a", "t", "e", "s">>)
NameLoadedRoomState ==
    Str(<<"L", "o", "a", "d", "e", "d", " ", "R", "o", "o", "m", " ", "S", "t", "a", "t", "e">>)
NameMoveLists == Str(<<"M", "o", "v", "e", " ", "L", "i", "s", "t", "s">>)
NameManagedPool == Str(<<"M", "a", "n", "a", "g", "e", "d", " ", "P", "o", "o", "l">>)
NamePluginData == Str(<<"P", "l", "u", "g", "i", "n", " ", "D", "a", "t", "a">>)

Handler(name, version, lowest, selection, serialize, unserialize) ==
    [Name |-> name, Version |-> version, LowestVersion |-> lowest, Selection |-> selection,
     Serialize |-> serialize, Unserialize |-> unserialize]

\* Array of supported components (without its end-of-array entry)
ComponentHandlers ==
    << Handler(NameGameState, kGSSvgVersion_361_14, kGSSvgVersion_Initial,
               kSaveCmp_GameState, "WriteGameState", "ReadGameState"),
       Handler(NameAudio, kAudioSvgVersion_36009, kAudioSvgVersion_Initial,
               kSaveCmp_Audio, "WriteAudio", "ReadAudio"),
       Handler(NameCharacters, kCharSvgVersion_36115, kCharSvgVersion_350,
               kSaveCmp_Characters, "WriteCharacters", "ReadCharacters"),
       Handler(NameDialogs, 0, 0, kSaveCmp_Dialogs, "WriteDialogs", "ReadDialogs"),
       Handler(NameGUI, kGuiSvgVersion_36202, kGuiSvgVersion_Initial,
               kSaveCmp_GUI, "WriteGUI", "ReadGUI"),
       Handler(NameInventory, 0, 0, kSaveCmp_InvItems, "WriteInventory", "ReadInventory"),
       Handler(NameMouseCursors, kCursorSvgVersion_36016, kCursorSvgVersion_Initial,
               kSaveCmp_Cursors, "WriteMouseCursors", "ReadMouseCursors"),
       Handler(NameViews, 0, 0, kSaveCmp_Views, "WriteViews", "ReadViews"),
       Handler(NameDynamicSprites, 0, 0, kSaveCmp_DynamicSprites,
               "WriteDynamicSprites", "ReadDynamicSprites"),
       \* Alternate "Dynamic Sprites" handler in case only object-owned sprites are serialized
       Handler(NameDynamicSprites, 0, 0, kSaveCmp_ObjectSprites,
               "WriteObjectSprites", "ReadObjectSprites"),
       Handler(NameOverlays, kOverSvgVersion_36108, kOverSvgVersion_Initial,
               kSaveCmp_Overlays, "WriteOverlays", "ReadOverlays"),
       Handler(NameDynamicSurfaces, 0, 0, kSaveCmp_DynamicSprites,
               "WriteDynamicSurfaces", "ReadDynamicSurfaces"),
       Handler(NameScriptModules, kScriptModulesSvgVersion_36200,
               kScriptModulesSvgVersion_Initial,
               kSaveCmp_Scripts, "WriteScriptModules", "ReadScriptModules"),
       Handler(NameRoomStates, kRoomStatSvgVersion_36109, kRoomStatSvgVersion_350_Mismatch,
               kSaveCmp_Rooms, "WriteRoomStates", "ReadRoomStates"),
       Handler(NameLoadedRoomState, kRoomStatSvgVersion_36109, kRoomStatSvgVersion_350,
               kSaveCmp_ThisRoom, "WriteThisRoom", "ReadThisRoom"),
       Handler(NameMoveLists, kMoveSvgVersion_36109, kMoveSvgVersion_350,
               kSaveCmp_Characters \cup kSaveCmp_ThisRoom, "WriteMoveLists", "ReadMoveLists"),
       Handler(NameManagedPool, 0, 0, kSaveCmp_Scripts, "WriteManagedPool", "ReadManagedPool"),
       Handler(NamePluginData, kPluginSvgVersion_36115, kPluginSvgVersion_Initial,
               kSaveCmp_Plugins, "WritePluginData", "ReadPluginData") >>

\* (variant: every handler is taken for selected)
Selected_Always(hdlr, select_cmp) == TRUE

\* (hdlr.Selection & select_cmp) != 0
Selected(hdlr, select_cmp) == hdlr.Selection \cap select_cmp # {}

\* HSaveError converted to bool: true when it holds no error
IsOk(err) == err = "None"

\* hdlr.Serialize(out): every serializer returns HSaveError::None()
Serialize(hdlr, out, g) ==
    LET fn == hdlr.Serialize
        o == CASE fn = "WriteGameState" -> WriteGameState(out, g)
               [] fn = "WriteAudio" -> WriteAudio(out, g)
               [] fn = "WriteCharacters" -> WriteCharacters(out, g)
               [] fn = "WriteDialogs" -> WriteDialogs(out, g)
               [] fn = "WriteGUI" -> WriteGUI(out, g)
               [] fn = "WriteInventory" -> WriteInventory(out, g)
               [] fn = "WriteMouseCursors" -> WriteMouseCursors(out, g)
               [] fn = "WriteViews" -> WriteViews(out, g)
               [] fn = "WriteDynamicSprites" -> WriteDynamicSprites(out, g)
               [] fn = "WriteObjectSprites" -> WriteObjectSprites(out, g)
               [] fn = "WriteOverlays" -> WriteOverlays(out, g)
               [] fn = "WriteDynamicSurfaces" -> WriteDynamicSurfaces(out, g)
               [] fn = "WriteScriptModules" -> WriteScriptModules(out, g)
               [] fn = "WriteRoomStates" -> WriteRoomStates(out, g)
               [] fn = "WriteThisRoom" -> WriteThisRoom(out, g)
               [] fn = "WriteMoveLists" -> WriteMoveLists(out, g)
               [] fn = "WriteManagedPool" -> WriteManagedPool(out, g)
               [] fn = "WritePluginData" -> WritePluginData(out, g)
    IN  [out |-> o, err |-> "None"]

----------------------------------------------------------------------------
(* Stream orchestrator: writing                                            *)

\* the end of WriteComponent, closing the tag only when the serializer failed
WriteComponentEnd_CloseOnFailure(r, hdlr, ref_pos) ==
    LET end_pos == r.out.pos
        o5 == SeekOut(Put(SeekOut(r.out, ref_pos), WriteInt64(end_pos - ref_pos - 8)), end_pos)
    IN  [out |-> IF ~IsOk(r.err) THEN Put(o5, WriteFormatTag(hdlr.Name, FALSE)) ELSE o5,
         err |-> r.err]

\* the end of WriteComponent that writes the end position for the size
WriteComponentEnd_AbsoluteSize(r, hdlr, ref_pos) ==
    LET end_pos == r.out.pos
        o5 == SeekOut(Put(SeekOut(r.out, ref_pos), WriteInt64(end_pos)), end_pos)
    IN  [out |-> IF IsOk(r.err) THEN Put(o5, WriteFormatTag(hdlr.Name, FALSE)) ELSE o5,
         err |-> r.err]

\* the end of WriteComponent, from the return of the serializer on: r is
\* what the serializer returned, ref_pos the position of the component size
WriteComponentEnd(r, hdlr, ref_pos) ==
    LET end_pos == r.out.pos
        \* size of serialized component data
        o5 == SeekOut(Put(SeekOut(r.out, ref_pos), WriteInt64(end_pos - ref_pos - 8)), end_pos)
    IN  [out |-> IF IsOk(r.err) THEN Put(o5, WriteFormatTag(hdlr.Name, FALSE)) ELSE o5,
         err |-> r.err]

\* WriteComponent from the placeholder for the component size on
WriteComponentData(o2, hdlr, g) ==
    WriteComponentEnd(Serialize(hdlr, Put(o2, WriteInt64(0)), g), hdlr, o2.pos)

WriteComponent(out, hdlr, g) ==
    WriteComponentData(Put(Put(out, WriteFormatTag(hdlr.Name, TRUE)), WriteInt32(hdlr.Version)),
                       hdlr, g)

RECURSIVE WriteComponentsFrom(_, _, _, _)

\* the loop of WriteAllCommon after WriteComponent returned w for handler type
WriteComponentDone(w, select_cmp, g, type) ==
    IF ~IsOk(w.err)
    THEN [out |-> w.out, err |-> "ComponentSerialization", cause |-> w.err, type |-> type]
    ELSE WriteComponentsFrom(w.out, select_cmp, g, type + 1)

\* the loop of WriteAllCommon from handler type on (1-based)
WriteComponentsFrom(out, select_cmp, g, type) ==
    IF type > Len(ComponentHandlers)
    THEN [out |-> Put(out, WriteFormatTag(ComponentListTag, FALSE)),
          err |-> "None", cause |-> "None", type |-> 0]
    ELSE IF ~Selected(ComponentHandlers[type], select_cmp)
    THEN WriteComponentsFrom(out, select_cmp, g, type + 1)    \* skip this component
    ELSE WriteComponentDone(WriteComponent(out, ComponentHandlers[type], g), select_cmp, g, type)

WriteAllCommon(out, select_cmp, g) ==
    WriteComponentsFrom(Put(out, WriteFormatTag(ComponentListTag, TRUE)), select_cmp, g, 1)

----------------------------------------------------------------------------
(* Reading: the state a deserialization works on                           *)

\* RestoredData as ReadAll's caller constructs it, with the caller's flags
NewRestoredData(restore_flags) ==
    [ RestoreFlags |-> restore_flags,
      DataCounts |-> [AudioClipTypes |-> 0, Characters |-> 0, Dialogs |-> 0, GUIs |-> 0,
                      GUIControls |-> <<>>, InventoryItems |-> 0, Cursors |-> 0, Views |-> 0,
                      ViewLoops |-> <<>>, ViewFrames |-> <<>>, GlobalScriptDataSz |-> 0,
                      ScriptModules |-> 0, ScriptDataSz |-> <<>>, Dummy |-> 0],
      FPS |-> 0, CursorMode |-> 0, CursorID |-> 0,
      Cameras |-> <<>>, Viewports |-> <<>>, LegacyViewCamera |-> FALSE, Camera0_Flags |-> 0,
      AudioChans |-> [i \in 1..TOTAL_AUDIO_CHANNELS |->
                        [ClipID |-> -1, Pos |-> 0, Priority |-> 0, Repeat |-> 0, Vol |-> 0,
                         VolAsPercent |-> 0, Pan |-> 0, Speed |-> 0, XSource |-> 0,
                         YSource |-> 0, MaxDist |-> 0]],
      DoAmbient |-> [i \in 1..MAX_GAME_CHANNELS |-> 0],
      OverlayImages |-> {},         \* pairs <<overlay type, bitmap>>, one per type
      DynamicSurfaces |-> <<>>,
      GlobalScript |-> <<>>,
      ScriptModules |-> {},         \* pairs <<module name, data>>, one per name
      RoomBkgScene |-> [i \in 1..MAX_ROOM_BGFRAMES |-> 0],
      RoomLightLevels |-> [i \in 1..MAX_ROOM_REGIONS |-> 0],
      RoomTintLevels |-> [i \in 1..MAX_ROOM_REGIONS |-> 0],
      RoomZoomLevels1 |-> [i \in 1..MAX_WALK_AREAS |-> 0],
      RoomZoomLevels2 |-> [i \in 1..MAX_WALK_AREAS |-> 0],
      RoomVolume |-> 0 ]

\* PreservedParams: the loaded game's script data sizes and module names
PreservedParams(g) ==
    [ GlScDataSize |-> Len(g.globaldata),
      ScriptModuleNames |-> [i \in 1..Len(g.modules) |-> g.modules[i].name],
      ScMdDataSize |-> [i \in 1..Len(g.modules) |-> Len(g.modules[i].data)] ]

\* The context of a deserialization: the input stream and its position, the
\* live game, the restored data, the error so far, the arrays that were
\* accessed outside their bounds, and the value that the uninitialized flags
\* of the default content assertion happen to hold.
NewContext(s, pos, g, r, dummy_flags) ==
    [s |-> s, pos |-> pos, g |-> g, r |-> r, err |-> "None", oob |-> {},
     dummy_flags |-> dummy_flags, overrun |-> FALSE]

\* A number of objects beyond the largest that is followed here: the loop
\* over it runs far beyond the end of the stream and of the program's
\* arrays, and the restore is taken as one that the program does not survive.
MaxCount == 16
TooMany(c, n) == n > MaxCount
UTooMany(c, n) == n < 0 \/ n > MaxCount

\* a number of bytes that the stream cannot hold
TooLong(c, n) == n < 0 \/ n > Len(c.s)
Overrun(c) == [c EXCEPT !.overrun = TRUE]

I32(c) == ReadInt32(c.s, c.pos)
Adv(c, n) == [c EXCEPT !.pos = AdvPos(c.s, @, n)]
Fail(c, e) == [c EXCEPT !.err = e]

\* array[i] = v of a live game array (i 0-based); outside the array the
\* store hits no element of it
SetElem(c, array, i, v) ==
    IF i >= 0 /\ i < Len(c.g[array]) THEN [c EXCEPT !.g[array][i + 1] = v]
    ELSE [c EXCEPT !.oob = @ \cup {array}]

\* the element array[i], or no object when i is outside the array
HasElem(c, array, i) == i >= 0 /\ i < Len(c.g[array])

\* AssertGameContent on the restored data's flags and one of its counters
AssertContent(c, new_val, original_val, counter) ==
    LET a == AssertGameContent(new_val, original_val, c.r.RestoreFlags, c.r.DataCounts[counter])
    IN  [c EXCEPT !.r.RestoreFlags = a.flags, !.r.DataCounts[counter] = a.count, !.err = a.err]

\* ReadFromSavegame of the objects array[i .. n-1], one after another
RECURSIVE ReadObjects(_, _, _, _)
ReadObjects(c, array, i, n) ==
    IF ~ULt(i, n) THEN c
    ELSE IF UTooMany(c, n) THEN Overrun(c)
    ELSE ReadObjects(Adv(SetElem(c, array, i, I32(c)), 4), array, i + 1, n)

----------------------------------------------------------------------------
(* Component readers: Game State, Audio, Characters, Dialogs               *)

\* the camera and viewport objects that CreateRoomCamera and
\* CreateRoomViewport add to the game
NewCamera == [locked |-> FALSE, Left |-> 0, Top |-> 0, Width |-> 0, Height |-> 0]
NewViewport ==
    [visible |-> FALSE, Left |-> 0, Top |-> 0, Width |-> 0, Height |-> 0, ZOrder |-> 0,
     CamID |-> -1]

CreateRoomCamera(c) == [c EXCEPT !.g.cameras = Append(@, NewCamera)]
CreateRoomViewport(c) == [c EXCEPT !.g.viewports = Append(@, NewViewport)]

ReadLegacyCameraState(c) ==
    LET camx == ReadInt32(c.s, c.pos)
        camy == ReadInt32(c.s, AdvPos(c.s, c.pos, 4))
        c1 == CreateRoomViewport(CreateRoomCamera(Adv(c, 8)))
        cam_dat == [ID |-> 0, Flags |-> 0, Left |-> camx, Top |-> camy, Width |-> 0,
                    Height |-> 0]
        view_dat == [ID |-> 0, Flags |-> kSvgViewportVisible, Left |-> 0, Top |-> 0,
                     Width |-> 0, Height |-> 0, ZOrder |-> 0, CamID |-> 0]
    IN  [c1 EXCEPT !.r.Cameras = Append(@, cam_dat), !.r.Viewports = Append(@, view_dat),
                   !.r.LegacyViewCamera = TRUE]

\* ReadCameraState that takes the width for the height and the height for
\* the width
ReadCameraState_SwappedSize(c) ==
    LET v(k) == ReadInt32(c.s, AdvPos(c.s, c.pos, 4 * k))
        cam == [ID |-> Len(c.r.Cameras), Flags |-> v(0), Left |-> v(1), Top |-> v(2),
                Width |-> v(4), Height |-> v(3)]
    IN  [Adv(c, 20) EXCEPT !.r.Cameras = Append(@, cam)]

ReadCameraState(c) ==
    LET v(k) == ReadInt32(c.s, AdvPos(c.s, c.pos, 4 * k))
        cam == [ID |-> Len(c.r.Cameras), Flags |-> v(0), Left |-> v(1), Top |-> v(2),
                Width |-> v(3), Height |-> v(4)]
    IN  [Adv(c, 20) EXCEPT !.r.Cameras = Append(@, cam)]

ReadViewportState(c) ==
    LET v(k) == ReadInt32(c.s, AdvPos(c.s, c.pos, 4 * k))
        view == [ID |-> Len(c.r.Viewports), Flags |-> v(0), Left |-> v(1), Top |-> v(2),
                 Width |-> v(3), Height |-> v(4), ZOrder |-> v(5), CamID |-> v(6)]
    IN  [Adv(c, 28) EXCEPT !.r.Viewports = Append(@, view)]

RECURSIVE ReadCameras(_, _, _)
ReadCameras(c, i, cam_count) ==
    IF i >= cam_count THEN c
    ELSE IF TooMany(c, cam_count) THEN Overrun(c)
    ELSE ReadCameras(ReadCameraState(CreateRoomCamera(c)), i + 1, cam_count)

RECURSIVE ReadViewports(_, _, _)
ReadViewports(c, i, view_count) ==
    IF i >= view_count THEN c
    ELSE IF TooMany(c, view_count) THEN Overrun(c)
    ELSE ReadViewports(ReadViewportState(CreateRoomViewport(c)), i + 1, view_count)

\* ReadArray of the palette: as many entries as the palette has
RECURSIVE ReadPalette(_, _)
ReadPalette(c, i) ==
    IF i >= Len(c.g.palette) THEN c
    ELSE ReadPalette(Adv([c EXCEPT !.g.palette[i + 1] = I32(c)], 4), i + 1)

\* play.ReadFromSavegame and the values that follow it
ReadPlayState(c) ==
    LET v(k) == ReadInt32(c.s, AdvPos(c.s, c.pos, 4 * k))
    IN  [Adv(c, 32) EXCEPT !.g.play = v(0), !.r.FPS = v(1), !.g.loopcounter = v(2),
                           !.g.ifacepopped = v(3), !.g.game_paused = v(4),
                           !.r.CursorMode = v(5), !.r.CursorID = v(6),
                           !.g.mouse_on_iface = v(7)]

\* r_data.Cameras[0].Flags = r_data.Camera0_Flags
SetCamera0Flags(c) == [c EXCEPT !.r.Cameras[1].Flags = c.r.Camera0_Flags]

\* the number of cameras and the cameras; the number of viewports and the
\* viewports
ReadCameraList(c) == ReadCameras(Adv(c, 4), 0, I32(c))
ReadViewportList(c) == ReadViewports(Adv(c, 4), 0, I32(c))

\* the viewports and cameras of ReadGameState
ReadViewCams(c, svg_ver) ==
    IF svg_ver < kGSSvgVersion_350_10
    THEN SetCamera0Flags(ReadLegacyCameraState(c))
    ELSE ReadViewportList(ReadCameraList(
             [Adv(c, 4) EXCEPT
                 !.g.autoRoomViewport = TestBit(I32(c), kSvgGameAutoRoomView)]))

\* the second half of ReadGameState, from play.ReadFromSavegame on
ReadGameStateTail(c, svg_ver) == ReadViewCams(ReadPlayState(c), svg_ver)

\* ReadGameState after the palette
ReadGameStateVars(c1, cmp_ver) ==
    IF c1.g.legacy272
    THEN LET a == AssertGameContentDefault(I32(c1), Len(c1.g.intrVars), c1.dummy_flags, 0)
         IN  IF ~a.ok THEN Fail(Adv(c1, 4), a.err)
             ELSE ReadGameStateTail(
                      ReadObjects(Adv(c1, 4), "intrVars", 0, Len(c1.g.intrVars)), cmp_ver)
    ELSE ReadGameStateTail(c1, cmp_ver)

ReadGameState(c, cmp_ver, cmp_size, pp) ==
    ReadGameStateVars(ReadPalette([Adv(c, 4) EXCEPT !.g.base = I32(c)], 0), cmp_ver)

\* audioClipTypes[i].ReadFromSavegame and default_audio_type_volumes[i]
RECURSIVE ReadAudioTypes(_, _, _)
ReadAudioTypes(c, i, audiocliptype_read) ==
    IF ~ULt(i, audiocliptype_read) THEN c
    ELSE IF UTooMany(c, audiocliptype_read) THEN Overrun(c)
    ELSE LET el == [type |-> I32(c), vol |-> ReadInt32(c.s, AdvPos(c.s, c.pos, 4))]
         IN  ReadAudioTypes(Adv(SetElem(c, "audioClipTypes", i, el), 8), i + 1,
                            audiocliptype_read)

\* one iteration of the "active playbacks" loop
ReadAudioChannel(c, i, cmp_ver) ==
    LET v(k) == ReadInt32(c.s, AdvPos(c.s, c.pos, 4 * k))
        old == c.r.AudioChans[i + 1]
    IN  IF v(0) >= 0
        THEN LET info1 == [old EXCEPT !.ClipID = v(0), !.Pos = Max(v(1), 0), !.Priority = v(2),
                                      !.Repeat = v(3), !.Vol = v(4), !.VolAsPercent = v(6),
                                      !.Pan = v(7), !.Speed = v(8)]
             IN  IF cmp_ver >= kAudioSvgVersion_35026
                 THEN [Adv(c, 48) EXCEPT !.r.AudioChans[i + 1] =
                          [info1 EXCEPT !.XSource = v(9), !.YSource = v(10), !.MaxDist = v(11)]]
                 ELSE [Adv(c, 36) EXCEPT !.r.AudioChans[i + 1] = info1]
        ELSE [Adv(c, 4) EXCEPT !.r.AudioChans[i + 1] = [old EXCEPT !.Pos = 0, !.ClipID = v(0)]]

RECURSIVE ReadAudioChannels(_, _, _, _)
ReadAudioChannels(c, i, total_channels, cmp_ver) ==
    IF i >= total_channels THEN c
    ELSE ReadAudioChannels(ReadAudioChannel(c, i, cmp_ver), i + 1, total_channels, cmp_ver)

\* ambient[i].ReadFromFile for i < max_game_channels
RECURSIVE ReadAmbients(_, _, _)
ReadAmbients(c, i, max_game_channels) ==
    IF i >= max_game_channels THEN c
    ELSE LET el == [channel |-> I32(c), num |-> ReadInt32(c.s, AdvPos(c.s, c.pos, 4))]
         IN  ReadAmbients(Adv(SetElem(c, "ambient", i, el), 8), i + 1, max_game_channels)

\* the loop that moves the ambient sounds to the restored data
RECURSIVE RestoreAmbients(_, _, _)
RestoreAmbients(c, i, max_game_channels) ==
    IF i >= max_game_channels THEN c
    ELSE IF c.g.ambient[i + 1].channel = 0
         THEN RestoreAmbients([c EXCEPT !.r.DoAmbient[i + 1] = 0], i + 1, max_game_channels)
         ELSE RestoreAmbients([c EXCEPT !.r.DoAmbient[i + 1] = c.g.ambient[i + 1].num,
                                        !.g.ambient[i + 1].channel = 0],
                              i + 1, max_game_channels)

\* the crossfade parameters and the current music type
ReadCrossfade(c) ==
    LET v(k) == ReadInt32(c.s, AdvPos(c.s, c.pos, 4 * k))
    IN  [Adv(c, 20) EXCEPT !.g.crossFading = v(0), !.g.crossFadeVolumePerStep = v(1),
                           !.g.crossFadeStep = v(2), !.g.crossFadeVolumeAtStart = v(3),
                           !.g.current_music_type = v(4)]

\* ReadAudio after the channel counts are known
ReadAudioTail(c, audiocliptype_read, total_channels, max_game_channels, cmp_ver) ==
    RestoreAmbients(
        ReadAmbients(
            ReadCrossfade(
                ReadAudioChannels(ReadAudioTypes(c, 0, audiocliptype_read), 0, total_channels,
                                  cmp_ver)),
            0, max_game_channels),
        NUM_SPEECH_CHANS, max_game_channels)

\* ReadAudio after the content assertion on the number of audio clip types
ReadAudioCounted(c1, audiocliptype_read, cmp_ver) ==
    IF ~IsOk(c1.err) THEN c1
    ELSE IF cmp_ver >= kAudioSvgVersion_36009
    THEN LET total_channels == ReadInt8(c1.s, c1.pos)
             max_game_channels == ReadInt8(c1.s, AdvPos(c1.s, c1.pos, 1))
             l1 == AssertCompatLimit(total_channels, TOTAL_AUDIO_CHANNELS)
             l2 == AssertCompatLimit(max_game_channels, MAX_GAME_CHANNELS)
         IN  IF ~l1.ok THEN Fail(Adv(c1, 4), l1.err)
             ELSE IF ~l2.ok THEN Fail(Adv(c1, 4), l2.err)
             ELSE ReadAudioTail(Adv(c1, 4), audiocliptype_read, total_channels,
                                max_game_channels, cmp_ver)
    ELSE ReadAudioTail(Adv(c1, 4), audiocliptype_read, TOTAL_AUDIO_CHANNELS_v320,
                       MAX_GAME_CHANNELS_v320, cmp_ver)

ReadAudio(c, cmp_ver, cmp_size, pp) ==
    ReadAudioCounted(
        Adv(AssertContent(c, I32(c), Len(c.g.audioClipTypes), "AudioClipTypes"), 4),
        I32(c), cmp_ver)

\* ReadTimesRun272 of a character's or an inventory item's interaction
RECURSIVE ReadTimesRun272(_, _, _, _)
ReadTimesRun272(c, array, i, k) ==
    IF ~HasElem(c, array, i) THEN [c EXCEPT !.oob = @ \cup {array}]
    ELSE IF k >= Len(c.g[array][i + 1].timesRun) THEN c
    ELSE ReadTimesRun272(Adv([c EXCEPT !.g[array][i + 1].timesRun[k + 1] = I32(c)], 4),
                         array, i, k + 1)

\* one iteration of the loop of ReadCharacters
ReadCharacter(c, i, cmp_ver) ==
    LET v(k) == ReadInt32(c.s, AdvPos(c.s, c.pos, 4 * k))
        c1 == IF HasElem(c, "chars", i)
              THEN [Adv(c, 12) EXCEPT !.g.chars[i + 1].info = v(0),
                                      !.g.chars[i + 1].extra = v(1),
                                      !.g.chars[i + 1].props = v(2)]
              ELSE [Adv(c, 12) EXCEPT !.oob = @ \cup {"chars"}]
        c2 == IF c.g.legacy272 THEN ReadTimesRun272(c1, "chars", i, 0) ELSE c1
    IN  IF cmp_ver < kCharSvgVersion_36109
        THEN Adv(SetElem(c2, "mls", CHMLSOFFS + i, I32(c2)), 4)
        ELSE c2

RECURSIVE ReadCharactersFrom(_, _, _, _)
ReadCharactersFrom(c, i, characters_read, cmp_ver) ==
    IF ~ULt(i, characters_read) THEN c
    ELSE IF UTooMany(c, characters_read) THEN Overrun(c)
    ELSE ReadCharactersFrom(ReadCharacter(c, i, cmp_ver), i + 1, characters_read, cmp_ver)

\* (variant: the number of characters is not asserted)
ReadCharacters_NoAssert(c, cmp_ver, cmp_size, pp) ==
    ReadCharactersFrom(Adv(c, 4), 0, I32(c), cmp_ver)

ReadCharacters(c, cmp_ver, cmp_size, pp) ==
    LET characters_read == I32(c)
        c1 == Adv(AssertContent(c, characters_read, Len(c.g.chars), "Characters"), 4)
    IN  IF ~IsOk(c1.err) THEN c1
        ELSE ReadCharactersFrom(c1, 0, characters_read, cmp_ver)

ReadDialogs(c, cmp_ver, cmp_size, pp) ==
    LET dialogs_read == I32(c)
        c1 == Adv(AssertContent(c, dialogs_read, Len(c.g.dialog), "Dialogs"), 4)
    IN  IF ~IsOk(c1.err) THEN c1
        ELSE ReadObjects(c1, "dialog", 0, dialogs_read)

----------------------------------------------------------------------------
(* Component readers: GUI, Inventory Items, Mouse Cursors, Views           *)

\* std::vector::resize
Resize(seq, n, def) == [i \in 1..n |-> IF i <= Len(seq) THEN seq[i] ELSE def]

\* the objects array[0 .. n_read-1], unless the content assertion on their
\* number failed
ReadAsserted(c, array, n_read) ==
    IF ~IsOk(c.err) THEN c ELSE ReadObjects(c, array, 0, n_read)

\* the number of an array's objects, the content assertion on it, the objects
ReadCounted(c, array, counter) ==
    ReadAsserted(Adv(AssertContent(c, I32(c), Len(c.g[array]), counter), 4), array, I32(c))

\* one sub-list of the GUI component after its tag was read with the result t
ReadGUIListAt(c, t, array, counter) ==
    IF ~t.ok THEN Fail([c EXCEPT !.pos = t.pos], t.err)
    ELSE ReadCounted([c EXCEPT !.pos = t.pos], array, counter)

\* one sub-list of the GUI component: its tag, its count with the content
\* assertion on it, its objects
ReadGUIList(c, tag, array, counter) ==
    ReadGUIListAt(c, AssertFormatTagStrict(c.s, c.pos, tag, TRUE), array, counter)

\* the animated buttons, each added to the game's list of them
RECURSIVE ReadAnimatedButtons(_, _, _)
ReadAnimatedButtons(c, i, anim_count) ==
    IF i >= anim_count THEN c
    ELSE IF TooMany(c, anim_count) THEN Overrun(c)
    ELSE ReadAnimatedButtons(Adv([c EXCEPT !.g.animbuts = Append(@, I32(c))], 4), i + 1,
                             anim_count)

\* the sub-lists of ReadGUI from the k-th on, stopping at the first error
RECURSIVE ReadGUILists(_, _)
ReadGUILists(c, lists) ==
    IF lists = <<>> \/ ~IsOk(c.err) THEN c
    ELSE ReadGUILists(ReadGUIList(c, Head(lists)[1], Head(lists)[2], "Dummy"), Tail(lists))

\* r_data.DataCounts.GUIControls.resize(guis_read) after the list of GUIs
ResizeGUIControls(c, guis_read) ==
    IF IsOk(c.err)
    THEN [c EXCEPT !.r.DataCounts.GUIControls =
             IF UTooMany(c, guis_read) THEN @ ELSE Resize(@, guis_read, 0)]
    ELSE c

\* the end of ReadGUI: the animated buttons
ReadGUIAnimated(c) ==
    LET t == AssertFormatTagStrict(c.s, c.pos, TagAnimatedButtons, TRUE)
    IN  IF ~IsOk(c.err) THEN c
        ELSE IF ~t.ok THEN Fail([c EXCEPT !.pos = t.pos], t.err)
        ELSE ReadAnimatedButtons([c EXCEPT !.pos = AdvPos(c.s, t.pos, 4)], 0,
                                 ReadInt32(c.s, t.pos))

ReadGUI(c, cmp_ver, cmp_size, pp) ==
    ReadGUIAnimated(
        ReadGUILists(
            ResizeGUIControls(
                ReadGUIList(c, TagGUIs, "guis", "GUIs"),
                ReadInt32(c.s, AssertFormatTagStrict(c.s, c.pos, TagGUIs, TRUE).pos)),
            << <<TagGUIButtons, "guibuts">>, <<TagGUILabels, "guilabels">>,
               <<TagGUIInvWindows, "guiinv">>, <<TagGUISliders, "guislider">>,
               <<TagGUITextBoxes, "guitext">>, <<TagGUIListBoxes, "guilist">> >>))

\* one iteration of the loop of ReadInventory
ReadInventoryItem(c, i) ==
    LET v(k) == ReadInt32(c.s, AdvPos(c.s, c.pos, 4 * k))
        c1 == IF HasElem(c, "invinfo", i)
              THEN [Adv(c, 8) EXCEPT !.g.invinfo[i + 1].info = v(0),
                                     !.g.invinfo[i + 1].props = v(1)]
              ELSE [Adv(c, 8) EXCEPT !.oob = @ \cup {"invinfo"}]
    IN  IF c.g.legacy272 THEN ReadTimesRun272(c1, "invinfo", i, 0) ELSE c1

RECURSIVE ReadInventoryFrom(_, _, _)
ReadInventoryFrom(c, i, invitems_read) ==
    IF ~ULt(i, invitems_read) THEN c
    ELSE IF UTooMany(c, invitems_read) THEN Overrun(c)
    ELSE ReadInventoryFrom(ReadInventoryItem(c, i), i + 1, invitems_read)

ReadInventory(c, cmp_ver, cmp_size, pp) ==
    LET invitems_read == I32(c)
        c1 == Adv(AssertContent(c, invitems_read, Len(c.g.invinfo), "InventoryItems"), 4)
    IN  IF ~IsOk(c1.err) THEN c1 ELSE ReadInventoryFrom(c1, 0, invitems_read)

ReadMouseCursors(c, cmp_ver, cmp_size, pp) ==
    LET cursors_read == I32(c)
        c1 == Adv(AssertContent(c, cursors_read, Len(c.g.mcurs), "Cursors"), 4)
    IN  IF ~IsOk(c1.err) THEN c1 ELSE ReadObjects(c1, "mcurs", 0, cursors_read)

\* numLoops of views[view] and numFrames of views[view].loops[loop]; an
\* object outside its array has none
NumLoops(c, view) == IF HasElem(c, "views", view) THEN Len(c.g.views[view + 1]) ELSE 0
NumFrames(c, view, loop) ==
    IF loop < NumLoops(c, view) THEN Len(c.g.views[view + 1][loop + 1]) ELSE 0

RECURSIVE ReadViewFrames(_, _, _, _, _)
ReadViewFrames(c, view, loop, frame, frames_read) ==
    IF ~ULt(frame, frames_read) THEN c
    ELSE IF UTooMany(c, frames_read) THEN Overrun(c)
    ELSE LET el == [sound |-> I32(c), pic |-> ReadInt32(c.s, AdvPos(c.s, c.pos, 4))]
             c1 == IF frame < NumFrames(c, view, loop)
                   THEN [c EXCEPT !.g.views[view + 1][loop + 1][frame + 1] = el]
                   ELSE [c EXCEPT !.oob = @ \cup {"views"}]
         IN  ReadViewFrames(Adv(c1, 8), view, loop, frame + 1, frames_read)

RECURSIVE ReadViewLoops(_, _, _, _)

\* the frames of a loop after the content assertion on their number
ReadViewLoopFrames(c, view, loop, frames_read, loops_read) ==
    IF ~IsOk(c.err) THEN c
    ELSE ReadViewLoops(
             ReadViewFrames(
                 [c EXCEPT !.r.DataCounts.ViewFrames[view + 1] =
                              IF UTooMany(c, frames_read) THEN @ ELSE @ + frames_read],
                 view, loop, 0, frames_read),
             view, loop + 1, loops_read)

\* the context after the content assertion a on a loop's number of frames
ViewFramesAsserted(c, a) ==
    [Adv(c, 4) EXCEPT !.r.RestoreFlags = a.flags, !.r.DataCounts.Dummy = a.count,
                      !.err = a.err]

ReadViewLoops(c, view, loop, loops_read) ==
    IF ~ULt(loop, loops_read) THEN c
    ELSE IF UTooMany(c, loops_read) THEN Overrun(c)
    ELSE ReadViewLoopFrames(
             ViewFramesAsserted(c,
                 AssertGameObjectContent2(I32(c), NumFrames(c, view, loop), view, loop,
                                          c.r.RestoreFlags, c.r.DataCounts.Dummy)),
             view, loop, I32(c), loops_read)

RECURSIVE ReadViewsFrom(_, _, _)

\* the loop over the views after the loops of one view were read
ReadViewDone(c, view, views_read) ==
    IF ~IsOk(c.err) THEN c ELSE ReadViewsFrom(c, view + 1, views_read)

\* the loops of a view after the content assertion on their number
ReadViewOf(c, view, loops_read, views_read) ==
    IF ~IsOk(c.err) THEN c
    ELSE ReadViewDone(ReadViewLoops(c, view, 0, loops_read), view, views_read)

\* the context after the content assertion a on a view's number of loops
ViewLoopsAsserted(c, a, view) ==
    [Adv(c, 4) EXCEPT !.r.RestoreFlags = a.flags,
                      !.r.DataCounts.ViewLoops[view + 1] = a.count,
                      !.err = a.err]

ReadViewsFrom(c, view, views_read) ==
    IF ~ULt(view, views_read) THEN c
    ELSE ReadViewOf(
             ViewLoopsAsserted(c,
                 AssertGameObjectContent(I32(c), NumLoops(c, view), view, c.r.RestoreFlags,
                                         c.r.DataCounts.ViewLoops[view + 1]),
                 view),
             view, I32(c), views_read)

ReadViews(c, cmp_ver, cmp_size, pp) ==
    LET views_read == I32(c)
        c1 == Adv(AssertContent(c, views_read, Len(c.g.views), "Views"), 4)
    IN  IF ~IsOk(c1.err) THEN c1
        ELSE IF UTooMany(c1, views_read) THEN Overrun(c1)
        ELSE ReadViewsFrom(
                 [c1 EXCEPT !.r.DataCounts.ViewLoops = Resize(@, views_read, 0),
                            !.r.DataCounts.ViewFrames = Resize(@, views_read, 0)],
                 0, views_read)

----------------------------------------------------------------------------
(* Component readers: sprites, overlays, surfaces                          *)

\* read_serialized_bitmap and skip_serialized_bitmap take what
\* serialize_bitmap wrote
BitmapSize == 4
read_serialized_bitmap(s, pos) == ReadInt32(s, pos)

\* a sprite slot that holds no sprite, and an overlay slot that holds none
FreeSprite == [flags |-> 0, bitmap |-> 0]
FreeOverlay == [type |-> -1, data |-> 0, bitmap |-> 0]

\* spriteset.EnlargeTo(top_index): slots 0 .. top_index exist afterwards
EnlargeTo(sprites, top_index) ==
    IF top_index + 1 > Len(sprites) THEN Resize(sprites, top_index + 1, FreeSprite)
    ELSE sprites

\* add_dynamic_sprite(id, image, has_alpha, flags) into an existing slot
add_dynamic_sprite(c, id, image, flags) ==
    IF HasElem(c, "sprites", id)
    THEN [c EXCEPT !.g.sprites[id + 1] = [flags |-> flags, bitmap |-> image]]
    ELSE c

RECURSIVE ReadSpritesFrom(_, _, _, _)
ReadSpritesFrom(c, i, spr_count, match_flags) ==
    IF i >= spr_count THEN c
    ELSE IF TooMany(c, spr_count) THEN Overrun(c)
    ELSE LET id == I32(c)
             flags == ReadInt32(c.s, AdvPos(c.s, c.pos, 4))
             image == read_serialized_bitmap(c.s, AdvPos(c.s, c.pos, 8))
             c1 == IF HasAllBits(flags, match_flags)
                   THEN add_dynamic_sprite(c, id, image, flags)
                   ELSE c
         IN  ReadSpritesFrom(Adv(c1, 8 + BitmapSize), i + 1, spr_count, match_flags)

ReadDynamicSpritesImpl(c, match_flags) ==
    LET spr_count == I32(c)
        top_index == ReadInt32(c.s, AdvPos(c.s, c.pos, 4))
    IN  IF TooMany(c, top_index) THEN Overrun(Adv(c, 8))
        ELSE ReadSpritesFrom([Adv(c, 8) EXCEPT !.g.sprites = EnlargeTo(@, top_index)], 0,
                             spr_count, match_flags)

ReadDynamicSprites(c, cmp_ver, cmp_size, pp) == ReadDynamicSpritesImpl(c, {SPF_DYNAMICALLOC})

ReadObjectSprites(c, cmp_ver, cmp_size, pp) ==
    ReadDynamicSpritesImpl(c, {SPF_DYNAMICALLOC, SPF_OBJECTOWNED})

\* r_data.OverlayImages[type].reset(bitmap)
SetOverlayImage(images, type, bmp) == {p \in images : p[1] # type} \cup {<<type, bmp>>}

RECURSIVE ReadOverlaysFrom(_, _, _)
ReadOverlaysFrom(c, i, over_count) ==
    IF i >= over_count THEN c
    ELSE LET type == I32(c)
             has_bitmap == ReadBool(c.s, AdvPos(c.s, c.pos, 4))
             data == ReadInt32(c.s, AdvPos(c.s, c.pos, 5))
             c1 == Adv(c, 9)
         IN  IF type < 0 THEN ReadOverlaysFrom(c1, i + 1, over_count)   \* safety abort
             ELSE IF TooMany(c, type) THEN Overrun(c1)
             ELSE LET c2 == IF has_bitmap
                            THEN [Adv(c1, BitmapSize) EXCEPT !.r.OverlayImages =
                                     SetOverlayImage(@, type, read_serialized_bitmap(c1.s, c1.pos))]
                            ELSE c1
                      overs == IF Len(c2.g.overs) <= type
                               THEN Resize(c2.g.overs, type + 1, FreeOverlay)
                               ELSE c2.g.overs
                  IN  ReadOverlaysFrom(
                          [c2 EXCEPT !.g.overs = [overs EXCEPT ![type + 1] =
                                        [type |-> type, data |-> data, bitmap |-> 0]]],
                          i + 1, over_count)

ReadOverlays(c, cmp_ver, cmp_size, pp) ==
    LET over_count == I32(c)
    IN  IF UTooMany(c, over_count) THEN Overrun(Adv(c, 4))
        ELSE ReadOverlaysFrom([Adv(c, 4) EXCEPT !.g.overs = Resize(@, over_count, FreeOverlay)],
                              0, over_count)

RECURSIVE ReadSurfacesFrom(_, _)
ReadSurfacesFrom(c, i) ==
    IF i >= MAX_DYNAMIC_SURFACES THEN c
    ELSE IF ReadInt8(c.s, c.pos) = 0
    THEN ReadSurfacesFrom([Adv(c, 1) EXCEPT !.r.DynamicSurfaces[i + 1] = 0], i + 1)
    ELSE ReadSurfacesFrom(
             [Adv(c, 1 + BitmapSize) EXCEPT !.r.DynamicSurfaces[i + 1] =
                 read_serialized_bitmap(c.s, AdvPos(c.s, c.pos, 1))], i + 1)

\* the presence entries 0 .. n-1 of a list of n surfaces
RECURSIVE ReadSurfacesUpTo(_, _, _)
ReadSurfacesUpTo(c, i, n) ==
    IF i >= n THEN c
    ELSE IF ReadInt8(c.s, c.pos) = 0
    THEN ReadSurfacesUpTo([Adv(c, 1) EXCEPT !.r.DynamicSurfaces[i + 1] = 0], i + 1, n)
    ELSE ReadSurfacesUpTo(
             [Adv(c, 1 + BitmapSize) EXCEPT !.r.DynamicSurfaces[i + 1] =
                 read_serialized_bitmap(c.s, AdvPos(c.s, c.pos, 1))], i + 1, n)

\* (variant: as many surfaces are read as the save declares)
ReadDynamicSurfaces_SavedCount(c, cmp_ver, cmp_size, pp) ==
    LET l == AssertCompatLimit(I32(c), MAX_DYNAMIC_SURFACES)
        n == Max(I32(c), 0)
    IN  IF ~l.ok THEN Fail(Adv(c, 4), l.err)
        ELSE ReadSurfacesUpTo(
                 [Adv(c, 4) EXCEPT !.r.DynamicSurfaces = Resize(@, n, 0)], 0, n)

ReadDynamicSurfaces(c, cmp_ver, cmp_size, pp) ==
    LET l == AssertCompatLimit(I32(c), MAX_DYNAMIC_SURFACES)
    IN  IF ~l.ok THEN Fail(Adv(c, 4), l.err)
        ELSE ReadSurfacesFrom(
                 [Adv(c, 4) EXCEPT !.r.DynamicSurfaces = Resize(@, MAX_DYNAMIC_SURFACES, 0)], 0)

----------------------------------------------------------------------------
(* Component readers: scripts, rooms, move lists, pool, plugins            *)

\* in->Read(buffer, n) into a zeroed buffer of n bytes
ReadBytes(s, pos, n) == [k \in 1..n |-> ByteAt(s, pos + k - 1)]

\* StrUtil::ReadString: the length, then the characters
ReadString(s, pos) ==
    LET len == ReadInt32(s, pos)
    IN  IF len <= 0 THEN [str |-> <<>>, pos |-> AdvPos(s, pos, 4)]
        ELSE [str |-> ReadBytes(s, pos + 4, Min(len, Len(s) - Min(pos + 4, Len(s)))),
              pos |-> AdvPos(s, pos, 4 + len)]

\* the index (0-based) of the game's module of that name, or -1 (UINT32_MAX)
RECURSIVE FindModule(_, _, _)
FindModule(names, module_name, i) ==
    IF i >= Len(names) THEN -1
    ELSE IF module_name = names[i + 1] THEN i
    ELSE FindModule(names, module_name, i + 1)

\* r_data.ScriptModules[module_name] = scdata
SetScriptModule(modules, module_name, data) ==
    {p \in modules : p[1] # module_name} \cup {<<module_name, data>>}

RECURSIVE ReadModulesFrom(_, _, _, _, _, _)

\* the data of the save's i-th module after the content assertion on its size
ReadModuleData(c, i, modules_read, modules_match, cmp_ver, pp, module_name, data_len, game_module_index) ==
    IF ~IsOk(c.err) THEN c
    ELSE IF TooLong(c, data_len) THEN Overrun(c)
    ELSE ReadModulesFrom(
             [c EXCEPT !.pos = AdvPos(c.s, @, Low31(data_len)),
                       !.r.ScriptModules = SetScriptModule(@, module_name,
                                               ReadBytes(c.s, c.pos, Low31(data_len)))],
             i + 1, modules_read, [modules_match EXCEPT ![game_module_index + 1] = TRUE],
             cmp_ver, pp)

\* the context after the content assertion a on the size of the i-th module
ModuleSizeAsserted(c, a, i, pp) ==
    [c EXCEPT !.r.RestoreFlags = a.flags,
              !.r.DataCounts.ScriptDataSz[i + 1] = a.count,
              !.err = a.err,
              !.oob = IF i < Len(pp.ScMdDataSize) THEN @ ELSE @ \cup {"ScMdDataSize"}]

\* the save's i-th module once its name and the size of its data are read
ReadModuleNamed(c, i, modules_read, modules_match, cmp_ver, pp, module_name, data_len, game_module_index) ==
    IF game_module_index >= 0
    THEN \* Found matching module in the game
         ReadModuleData(
             ModuleSizeAsserted(c,
                 AssertGameObjectContent(
                     data_len, IF i < Len(pp.ScMdDataSize) THEN pp.ScMdDataSize[i + 1] ELSE 0,
                     i, c.r.RestoreFlags, c.r.DataCounts.ScriptDataSz[i + 1]),
                 i, pp),
             i, modules_read, modules_match, cmp_ver, pp, module_name, data_len,
             game_module_index)
    ELSE \* No such module in the game
         Fail(c, HandleExtraGameComponent.err)

\* the save's i-th module once its name rs is known
ReadModuleAt(c, rs, i, modules_read, modules_match, cmp_ver, pp) ==
    ReadModuleNamed(
        [c EXCEPT !.pos = AdvPos(c.s, rs.pos, 4),
                  !.oob = IF cmp_ver < kScriptModulesSvgVersion_36200
                             /\ ~(i < Len(pp.ScriptModuleNames))
                          THEN @ \cup {"ScriptModuleNames"} ELSE @],
        i, modules_read, modules_match, cmp_ver, pp, rs.str, ReadInt32(c.s, rs.pos),
        FindModule(pp.ScriptModuleNames, rs.str, 0))

\* the loop over the modules of the save, from the i-th on; modules_match
\* are the game's modules found so far
ReadModulesFrom(c, i, modules_read, modules_match, cmp_ver, pp) ==
    IF ~ULt(i, modules_read)
    THEN \* Assert that all game's script modules were read from the save
         IF \A k \in 1..Len(pp.ScriptModuleNames) : modules_match[k] THEN c
         ELSE Fail(c, HandleMissingGameComponent.err)
    ELSE ReadModuleAt(c,
             IF cmp_ver < kScriptModulesSvgVersion_36200
             THEN [str |-> IF i < Len(pp.ScriptModuleNames) THEN pp.ScriptModuleNames[i + 1]
                           ELSE <<>>,
                   pos |-> c.pos]
             ELSE ReadString(c.s, c.pos),
             i, modules_read, modules_match, cmp_ver, pp)

\* the script modules after the content assertion on their number
ReadModulesCounted(c, modules_read, cmp_ver, pp) ==
    IF ~IsOk(c.err) THEN c
    ELSE IF UTooMany(c, modules_read) THEN Overrun(c)
    ELSE ReadModulesFrom(
             [c EXCEPT !.r.DataCounts.ScriptDataSz = Resize(@, Low31(modules_read), 0)],
             0, modules_read, [k \in 1..Len(pp.ScriptModuleNames) |-> FALSE], cmp_ver, pp)

\* the number of script modules, the content assertion on it, the modules
ReadModuleList(c, cmp_ver, pp) ==
    ReadModulesCounted(
        Adv(AssertContent(c, I32(c), Len(c.g.modules), "ScriptModules"), 4),
        I32(c), cmp_ver, pp)

\* the global script's data after the content assertion on its size
ReadGlobalScript(c, data_len, cmp_ver, pp) ==
    IF ~IsOk(c.err) THEN c
    ELSE IF TooLong(c, data_len) THEN Overrun(c)
    ELSE ReadModuleList(
             [c EXCEPT !.pos = AdvPos(c.s, @, Low31(data_len)),
                       !.r.GlobalScript = ReadBytes(c.s, c.pos, Low31(data_len))],
             cmp_ver, pp)

ReadScriptModules(c, cmp_ver, cmp_size, pp) ==
    ReadGlobalScript(
        Adv(AssertContent(c, I32(c), pp.GlScDataSize, "GlobalScriptDataSz"), 4),
        I32(c), cmp_ver, pp)

RECURSIVE ReadRoomStatesFrom(_, _)

\* a room's state after its closing tag was read with the result t2
RoomStateRead(c, id, state, t2, roomstat_count) ==
    IF ~t2.ok
    THEN Fail([c EXCEPT !.pos = t2.pos,
                        !.g.rooms[id + 1] = [valid |-> TRUE, beenhere |-> TRUE,
                                             state |-> state]], t2.err)
    ELSE ReadRoomStatesFrom(
             [c EXCEPT !.pos = t2.pos,
                       !.g.rooms[id + 1] = [valid |-> TRUE, beenhere |-> TRUE,
                                            state |-> state]],
             roomstat_count - 1)

\* a room's state after its opening tag was read with the result t1
RoomStateOpened(c, id, t1, roomstat_count) ==
    IF ~t1.ok THEN Fail([c EXCEPT !.pos = t1.pos], t1.err)
    ELSE RoomStateRead(c, id, ReadInt32(c.s, t1.pos),
                       AssertFormatTagStrict(c.s, AdvPos(c.s, t1.pos, 4), TagRoomState, FALSE),
                       roomstat_count)

\* one iteration of the loop of ReadRoomStates after the room's id was read
ReadRoomState(c, id, roomstat_count) ==
    \* If id == -1, then the player has not been there yet
    IF id = -1 THEN ReadRoomStatesFrom(c, roomstat_count - 1)
    ELSE LET rg == AssertCompatRange(id, 0, MAX_ROOMS - 1)
         IN  IF ~rg.ok THEN Fail(c, rg.err)
             ELSE RoomStateOpened(c, id,
                                  AssertFormatTagStrict(c.s, c.pos, TagRoomState, TRUE),
                                  roomstat_count)

ReadRoomStatesFrom(c, roomstat_count) ==
    IF roomstat_count <= 0 THEN c
    ELSE IF TooMany(c, roomstat_count) THEN Overrun(c)
    ELSE ReadRoomState(Adv(c, 4), I32(c), roomstat_count)

ReadRoomStates(c, cmp_ver, cmp_size, pp) == ReadRoomStatesFrom(Adv(c, 4), I32(c))

\* the modified room backgrounds of ReadThisRoom
RECURSIVE ReadBgFrames(_, _)
ReadBgFrames(c, i) ==
    IF i >= MAX_ROOM_BGFRAMES THEN c
    ELSE IF ReadBool(c.s, c.pos)
    THEN ReadBgFrames([Adv(c, 1 + BitmapSize) EXCEPT
                          !.g.raw_modified[i + 1] = TRUE,
                          !.r.RoomBkgScene[i + 1] =
                              read_serialized_bitmap(c.s, AdvPos(c.s, c.pos, 1))], i + 1)
    ELSE ReadBgFrames([Adv(c, 1) EXCEPT !.g.raw_modified[i + 1] = FALSE,
                                        !.r.RoomBkgScene[i + 1] = 0], i + 1)

RECURSIVE ReadRegions(_, _)
ReadRegions(c, i) ==
    IF i >= MAX_ROOM_REGIONS THEN c
    ELSE ReadRegions([Adv(c, 8) EXCEPT
                         !.r.RoomLightLevels[i + 1] = I32(c),
                         !.r.RoomTintLevels[i + 1] = ReadInt32(c.s, AdvPos(c.s, c.pos, 4))],
                     i + 1)

RECURSIVE ReadWalkAreas(_, _)
ReadWalkAreas(c, i) ==
    IF i >= MAX_WALK_AREAS THEN c
    ELSE ReadWalkAreas([Adv(c, 8) EXCEPT
                           !.r.RoomZoomLevels1[i + 1] = I32(c),
                           !.r.RoomZoomLevels2[i + 1] = ReadInt32(c.s, AdvPos(c.s, c.pos, 4))],
                       i + 1)

\* the room object movement paths of old saves
RECURSIVE ReadObjMoveLists(_, _, _)
ReadObjMoveLists(c, i, objmls_count) ==
    IF i >= objmls_count THEN c
    ELSE ReadObjMoveLists(Adv(SetElem(c, "mls", i, I32(c)), 4), i + 1, objmls_count)

\* r_data.RoomVolume
ReadRoomVolume(c) == [Adv(c, 4) EXCEPT !.r.RoomVolume = I32(c)]

\* the temporary room's state, if the save has it
ReadTempRoom(c) ==
    IF ~ReadBool(c.s, c.pos)
    THEN [Adv(c, 5) EXCEPT !.g.troom = ReadInt32(c.s, AdvPos(c.s, c.pos, 1))]
    ELSE Adv(c, 1)

\* the end of ReadThisRoom: the music volume and the temporary room's state
ReadThisRoomTail(c) == ReadTempRoom(ReadRoomVolume(c))

\* the saved screen of ReadThisRoom, if the save has it
ReadSavedScreen(c) ==
    IF ReadBool(c.s, c.pos)
    THEN [Adv(c, 1 + BitmapSize) EXCEPT !.g.raw_saved_screen =
             read_serialized_bitmap(c.s, AdvPos(c.s, c.pos, 1))]
    ELSE Adv(c, 1)

\* ReadThisRoom from the room object movement paths on
ReadThisRoomPaths(c, cmp_ver) ==
    IF cmp_ver < kRoomStatSvgVersion_36109
    THEN LET objmls_count == I32(c)
             l == AssertCompatLimit(objmls_count, CHMLSOFFS)
         IN  IF ~l.ok THEN Fail(Adv(c, 4), l.err)
             ELSE ReadThisRoomTail(ReadObjMoveLists(Adv(c, 4), 0, objmls_count))
    ELSE ReadThisRoomTail(c)

ReadThisRoom(c, cmp_ver, cmp_size, pp) ==
    IF I32(c) < 0 THEN [Adv(c, 4) EXCEPT !.g.displayed_room = I32(c)]
    ELSE ReadThisRoomPaths(
             ReadWalkAreas(
                 ReadRegions(
                     ReadSavedScreen(
                         ReadBgFrames([Adv(c, 4) EXCEPT !.g.displayed_room = I32(c)], 0)),
                     0),
                 0),
             cmp_ver)

ReadMoveLists(c, cmp_ver, cmp_size, pp) ==
    LET movelist_count == I32(c)
        c1 == Adv(AssertContent(c, movelist_count, Len(c.g.mls), "Dummy"), 4)
    IN  IF ~IsOk(c1.err) THEN c1 ELSE ReadObjects(c1, "mls", 0, movelist_count)

\* ccUnserializeAllObjects: the number of objects, then each object; it
\* fails on a negative number of them
RECURSIVE ReadPoolFrom(_, _, _)
ReadPoolFrom(c, i, n) ==
    IF i >= n THEN c
    ELSE IF TooMany(c, n) THEN Overrun(c)
    ELSE ReadPoolFrom(Adv([c EXCEPT !.g.pool = Append(@, I32(c))], 4), i + 1, n)

ReadManagedPool(c, cmp_ver, cmp_size, pp) ==
    IF I32(c) < 0 THEN Fail(Adv(c, 4), "GameObjectInitFailed")
    ELSE ReadPoolFrom([Adv(c, 4) EXCEPT !.g.pool = <<>>], 0, I32(c))

\* ReadPluginSaveData: the plugins' data by its own length since
\* kPluginSvgVersion_36115, before that the whole of the component
ReadPluginData(c, cmp_ver, cmp_size, pp) ==
    IF cmp_ver >= kPluginSvgVersion_36115
    THEN LET len == Max(I32(c), 0)
         IN  [Adv(c, 4 + len) EXCEPT !.g.plugindata =
                 ReadBytes(c.s, AdvPos(c.s, c.pos, 4), Min(len, Len(c.s)))]
    ELSE LET len == Min(Max(cmp_size, 0), Len(c.s))
         IN  [Adv(c, len) EXCEPT !.g.plugindata = ReadBytes(c.s, c.pos, len)]

----------------------------------------------------------------------------
(* Stream orchestrator: reading                                            *)

\* handler->Unserialize(in, info.Version, info.DataSize, hlp.PP, hlp.RData)
Unserialize(hdlr, c, cmp_ver, cmp_size, pp) ==
    LET fn == hdlr.Unserialize
    IN  CASE fn = "ReadGameState" -> ReadGameState(c, cmp_ver, cmp_size, pp)
          [] fn = "ReadAudio" -> ReadAudio(c, cmp_ver, cmp_size, pp)
          [] fn = "ReadCharacters" -> ReadCharacters(c, cmp_ver, cmp_size, pp)
          [] fn = "ReadDialogs" -> ReadDialogs(c, cmp_ver, cmp_size, pp)
          [] fn = "ReadGUI" -> ReadGUI(c, cmp_ver, cmp_size, pp)
          [] fn = "ReadInventory" -> ReadInventory(c, cmp_ver, cmp_size, pp)
          [] fn = "ReadMouseCursors" -> ReadMouseCursors(c, cmp_ver, cmp_size, pp)
          [] fn = "ReadViews" -> ReadViews(c, cmp_ver, cmp_size, pp)
          [] fn = "ReadDynamicSprites" -> ReadDynamicSprites(c, cmp_ver, cmp_size, pp)
          [] fn = "ReadObjectSprites" -> ReadObjectSprites(c, cmp_ver, cmp_size, pp)
          [] fn = "ReadOverlays" -> ReadOverlays(c, cmp_ver, cmp_size, pp)
          [] fn = "ReadDynamicSurfaces" -> ReadDynamicSurfaces(c, cmp_ver, cmp_size, pp)
          [] fn = "ReadScriptModules" -> ReadScriptModules(c, cmp_ver, cmp_size, pp)
          [] fn = "ReadRoomStates" -> ReadRoomStates(c, cmp_ver, cmp_size, pp)
          [] fn = "ReadThisRoom" -> ReadThisRoom(c, cmp_ver, cmp_size, pp)
          [] fn = "ReadMoveLists" -> ReadMoveLists(c, cmp_ver, cmp_size, pp)
          [] fn = "ReadManagedPool" -> ReadManagedPool(c, cmp_ver, cmp_size, pp)
          [] fn = "ReadPluginData" -> ReadPluginData(c, cmp_ver, cmp_size, pp)

\* Stream::Seek(offset) from the current position
SeekCur(s, pos, offset) ==
    IF offset >= 0
    THEN (IF offset > Len(s) - Min(pos, Len(s)) THEN SeekTo(s, Len(s)) ELSE SeekTo(s, pos + offset))
    ELSE (IF offset < -pos THEN SeekTo(s, 0) ELSE SeekTo(s, pos + offset))

\* ComponentInfo()
NewComponentInfo == [Name |-> <<>>, Version |-> -1, Offset |-> 0, DataOffset |-> 0, DataSize |-> 0]

\* equal_range that returns every handler, whatever its name
HandlersNamed_Any(name) == ComponentHandlers

\* hlp.Handlers.equal_range(info.Name): the handlers of that name, in the
\* order of their insertion
HandlersNamed(name) ==
    SelectSeq(ComponentHandlers, LAMBDA h : h.Name = name)

\* a choice that finds every handler disabled
ChooseHandler_None(range, select_cmp) == <<>>

\* a choice of the last handler of the range that is not disabled
ChooseHandler_Last(range, select_cmp) ==
    LET sel == SelectSeq(range, LAMBDA h : Selected(h, select_cmp))
    IN  IF sel = <<>> THEN <<>> ELSE <<sel[Len(sel)]>>

\* the first handler of the range that is not disabled by the selection
\* (as a sequence of at most one handler)
ChooseHandler(range, select_cmp) ==
    LET sel == SelectSeq(range, LAMBDA h : Selected(h, select_cmp))
    IN  IF sel = <<>> THEN <<>> ELSE <<Head(sel)>>

\* The outcome of ReadComponent: the context after it, the component's info,
\* the error, and what the call did: the handler it invoked (if any), whether
\* it skipped the data, the position at its test of the expected position
\* (-1 when it returned before), whether it examined the closing tag.
Outcome(c, info, err, handler, skipped, test_pos, closing) ==
    [c |-> c, info |-> info, err |-> err, handler |-> handler, skipped |-> skipped,
     test_pos |-> test_pos, closing |-> closing]

\* the end of ReadComponent once the closing tag was read: t is what
\* AssertFormatTag returned, test_pos the position before it
ReadComponentClosed(c, info, handler, skipped, t) ==
    Outcome([c EXCEPT !.pos = t.pos], info,
            IF t.ok THEN "None" ELSE "ComponentClosingTagFormat",
            handler, skipped, c.pos, TRUE)

\* the end of ReadComponent without the test of the expected position
ReadComponentEnd_NoSizeTest(c, info, handler, skipped) ==
    ReadComponentClosed(c, info, handler, skipped,
                        AssertFormatTag(c.s, c.pos, info.Name, FALSE))

\* the end of ReadComponent, from the test of the expected position on
ReadComponentEnd(c, info, handler, skipped) ==
    IF c.pos - info.DataOffset # info.DataSize
    THEN Outcome(c, info, "ComponentSizeMismatch", handler, skipped, c.pos, FALSE)
    ELSE Once(LAMBDA t : ReadComponentClosed(c, info, handler, skipped, t),
              AssertFormatTag(c.s, c.pos, info.Name, FALSE))

\* ReadComponent after the handler returned the context c2
ReadComponentUnserialized(c2, info, handler) ==
    IF c2.overrun THEN Outcome(c2, info, "Overrun", handler, FALSE, -1, FALSE)
    ELSE IF ~IsOk(c2.err) THEN Outcome(c2, info, c2.err, handler, FALSE, -1, FALSE)
    ELSE ReadComponentEnd(c2, info, handler, FALSE)

\* the saved version is one that the handler does not read, when only the
\* newer versions are refused
UnsupportedVersion_NoFloor(version, hdlr) == version > hdlr.Version

\* the saved version is one that the handler does not read
UnsupportedVersion(version, hdlr) ==
    version > hdlr.Version \/ version < hdlr.LowestVersion

\* (variant: the data of a component without a handler are not skipped)
ReadComponentWith_NoSeek(c1, info, hlp, range, handler) ==
    IF range = <<>>
    THEN Outcome(c1, info, "UnsupportedComponent", <<>>, FALSE, -1, FALSE)
    ELSE IF handler # <<>> /\ handler[1].Unserialize # ""
    THEN IF UnsupportedVersion(info.Version, handler[1])
         THEN Outcome(c1, info, "UnsupportedComponentVersion", <<>>, FALSE, -1, FALSE)
         ELSE ReadComponentUnserialized(
                  Unserialize(handler[1], c1, info.Version, info.DataSize, hlp.PP),
                  info, handler)
    ELSE ReadComponentEnd(c1, info, <<>>, TRUE)

\* ReadComponent once the handler, if any, is chosen: range holds the
\* handlers of the component's name, handler the chosen one or none
ReadComponentWith(c1, info, hlp, range, handler) ==
    IF range = <<>>
    THEN Outcome(c1, info, "UnsupportedComponent", <<>>, FALSE, -1, FALSE)
    ELSE IF handler # <<>> /\ handler[1].Unserialize # ""
    THEN IF UnsupportedVersion(info.Version, handler[1])
         THEN Outcome(c1, info, "UnsupportedComponentVersion", <<>>, FALSE, -1, FALSE)
         ELSE ReadComponentUnserialized(
                  Unserialize(handler[1], c1, info.Version, info.DataSize, hlp.PP),
                  info, handler)
    \* Else, skip the data
    ELSE Once(LAMBDA c2 : ReadComponentEnd(c2, info, <<>>, TRUE),
              [c1 EXCEPT !.pos = SeekCur(c1.s, c1.pos, info.DataSize)])

\* Find component's handler(s)
ReadComponentFind(c1, info, hlp, range) ==
    Once(LAMBDA handler : ReadComponentWith(c1, info, hlp, range, handler),
         ChooseHandler(range, hlp.ComponentSelection))

\* ReadComponent from the component's info on
ReadComponentInfo(c, info, hlp) ==
    Once(LAMBDA c1 : Once(LAMBDA range : ReadComponentFind(c1, info, hlp, range),
                          HandlersNamed(info.Name)),
         [c EXCEPT !.pos = info.DataOffset])

\* the info of the component whose opening tag t was read at c.pos
ComponentInfo(c, t, wide) ==
    [Name |-> t.tag,
     Version |-> ReadInt32(c.s, t.pos),
     Offset |-> c.pos,
     DataOffset |-> AdvPos(c.s, AdvPos(c.s, t.pos, 4), IF wide THEN 8 ELSE 4),
     DataSize |-> IF wide THEN ReadInt64(c.s, AdvPos(c.s, t.pos, 4))
                  ELSE ReadInt32(c.s, AdvPos(c.s, t.pos, 4))]

\* ReadComponent after the opening tag was read with the result t
ReadComponentTag(c, hlp, t) ==
    IF ~t.ok
    THEN Outcome([c EXCEPT !.pos = t.pos],
                 [NewComponentInfo EXCEPT !.Name = t.tag, !.Offset = c.pos],
                 "ComponentOpeningTagFormat", <<>>, FALSE, -1, FALSE)
    ELSE Once(LAMBDA info : ReadComponentInfo(c, info, hlp),
              ComponentInfo(c, t, hlp.Version >= kSvgVersion_Cmp_64bit))

ReadComponent(c, hlp) ==
    Once(LAMBDA t : ReadComponentTag(c, hlp, t), ReadFormatTag(c.s, c.pos, <<>>, TRUE))

\* SvgCmpReadHelper
NewReadHelper(svg_version, select_cmp, pp) ==
    [Version |-> svg_version, ComponentSelection |-> select_cmp, PP |-> pp]

\* What the engine does to the live game before it reads a save into it:
\* the objects that a save recreates are disposed of.
DoBeforeRestore(g) ==
    [g EXCEPT !.cameras = <<>>,
              !.viewports = <<>>,
              !.animbuts = <<>>,
              !.overs = <<>>,
              !.sprites = [i \in 1..Len(g.sprites) |->
                             IF TestBit(g.sprites[i].flags, SPF_DYNAMICALLOC) THEN FreeSprite
                             ELSE g.sprites[i]],
              !.raw_saved_screen = 0,
              !.rooms = [i \in 1..Len(g.rooms) |->
                           [valid |-> FALSE, beenhere |-> FALSE, state |-> 0]],
              !.pool = <<>>]

----------------------------------------------------------------------------
(* The program's state and its operations                                  *)

\* the selection masks that saves and restores are asked for: none, each
\* single component, all, and the two pairs that share a component name or
\* a handler
MaskChoices ==
    {kSaveCmp_None, kSaveCmp_All, kSaveCmp_DynamicSprites \cup kSaveCmp_ObjectSprites,
     kSaveCmp_Characters \cup kSaveCmp_ThisRoom}
        \cup {{b} : b \in kSaveCmp_All \cup kSaveCmp_ObjectSprites}

\* the general savegame versions that restores are asked for
VersionChoices == {kSvgVersion_Cmp_64bit - 1, kSvgVersion_Cmp_64bit}

\* the restoration flags that restores are asked for
RestoreFlagChoices == {{}, PermissionBits}

\* what the uninitialized flags of the default assertion may hold
DummyFlagChoices(g) == IF g.legacy272 THEN {{}, PermissionBits} ELSE {{}}

\* no save was made yet
NoSave ==
    [made |-> FALSE, mask |-> {}, g |-> <<>>, buf |-> <<>>, err |-> "None", cause |-> "None"]

\* no stream was altered
NoTamper == [kind |-> "none", at |-> 0, value |-> 0]

\* no content assertion was made yet
NoAssert ==
    [fn |-> "none", new_val |-> 0, original_val |-> 0, flags |-> {}, count_before |-> 0,
     count |-> 0, ok |-> TRUE, err |-> "None"]

\* what the last ReadComponent call did, before any call
NoCall ==
    [info |-> NewComponentInfo, err |-> "None", handler |-> "", skipped |-> FALSE,
     test_pos |-> -1, closing |-> FALSE, end_pos |-> 0, called |-> FALSE]

\* a restore that has not begun
IdleRead(g) ==
    [pc |-> "idle", pos |-> 0, idx |-> 0, mask |-> {}, version |-> 0,
     pp |-> PreservedParams(g), r |-> NewRestoredData({}), oob |-> {}, dummy_flags |-> {},
     result |-> "Pending", cause |-> "None", last |-> NoCall, unserialized |-> <<>>,
     before |-> g]

Init ==
    /\ game \in {NewGame(seed, legacy) : seed \in 1..NumSeeds, legacy \in BOOLEAN}
    /\ saved = NoSave
    /\ stream = <<>>
    /\ tamper = NoTamper
    /\ rd = IdleRead(game)
    /\ aflags = {}
    /\ acall = NoAssert

\* The game runs on: its state becomes another one of the same game.
Play ==
    /\ rd.pc = "idle"
    /\ \E seed \in 1..NumSeeds :
          /\ NewGame(seed, game.legacy272) # game
          /\ game' = NewGame(seed, game.legacy272)
    /\ UNCHANGED <<saved, stream, tamper, rd, aflags, acall>>

\* the stream and the record of a save that WriteAllCommon returned w for
Written(select_cmp, w) ==
    /\ stream' = w.out.buf
    /\ saved' = [made |-> TRUE, mask |-> select_cmp, g |-> game, buf |-> w.out.buf,
                 err |-> w.err, cause |-> w.cause]

\* WriteAllCommon(out, select_cmp) on a new stream
Save(select_cmp) ==
    /\ rd.pc = "idle"
    /\ ~saved.made
    /\ Written(select_cmp, WriteAllCommon(NewOut, select_cmp, game))
    /\ tamper' = NoTamper
    /\ UNCHANGED <<game, rd, aflags, acall>>

\* ReadAll up to its loop: the caller's preparation of the game and of the
\* restored data, the helper, the opening tag of the list
ListBegun(select_cmp, svg_version, restore_flags, dummy_flags, t) ==
    /\ game' = DoBeforeRestore(game)
    /\ rd' = [IdleRead(game) EXCEPT
                 !.pc = IF t.ok THEN "loop" ELSE "done",
                 !.pos = t.pos,
                 !.mask = select_cmp,
                 !.version = svg_version,
                 !.r = NewRestoredData(restore_flags),
                 !.dummy_flags = dummy_flags,
                 !.result = IF t.ok THEN "Pending" ELSE "ComponentListOpeningTagFormat"]

BeginRead(select_cmp, svg_version, restore_flags, dummy_flags) ==
    ListBegun(select_cmp, svg_version, restore_flags, dummy_flags,
              AssertFormatTag(stream, 0, ComponentListTag, TRUE))

\* what ReadAll's loop keeps of a ReadComponent call with the outcome o
CallOf(o) ==
    [info |-> o.info, err |-> o.err,
     handler |-> IF o.handler = <<>> THEN "" ELSE o.handler[1].Unserialize,
     skipped |-> o.skipped, test_pos |-> o.test_pos, closing |-> o.closing,
     end_pos |-> o.c.pos, called |-> TRUE]

\* ReadAll that takes the end of the stream for the end of the list
ListResult_EndAtEOS(err, eos) ==
    IF ~IsOk(err) THEN "ComponentUnserialization"
    ELSE IF eos THEN "None"
    ELSE "Pending"

\* what ReadAll returns after ReadComponent returned err, the stream being
\* at its end or not: "Pending" when its loop goes on
ListResult(err, eos) ==
    IF ~IsOk(err) THEN "ComponentUnserialization"
    ELSE IF eos THEN "ComponentListClosingTagMissing"
    ELSE "Pending"

\* the greatest value of idx, a size_t, scaled down: the counter of the
\* components read wraps around after it
SIZE_MAX == 31

\* (variant: the loop goes on after a component that failed)
ComponentRead_GoOn(o) ==
    /\ game' = o.c.g
    /\ rd' = [rd EXCEPT
                 !.pos = o.c.pos, !.r = o.c.r, !.oob = o.c.oob, !.last = CallOf(o),
                 !.unserialized = IF o.handler # <<>> THEN Append(@, o.handler[1].Unserialize)
                                  ELSE @,
                 !.idx = (@ + 1) % (SIZE_MAX + 1),
                 !.pc = IF ~EOS(stream, o.c.pos) THEN "loop" ELSE "done",
                 !.result = ListResult(o.err, EOS(stream, o.c.pos)),
                 !.cause = IF ~IsOk(o.err) THEN o.err ELSE "None"]

\* the loop of ReadAll after ReadComponent returned the outcome o
ComponentRead(o) ==
    /\ game' = o.c.g
    /\ rd' = [rd EXCEPT
                 !.pos = o.c.pos, !.r = o.c.r, !.oob = o.c.oob, !.last = CallOf(o),
                 !.unserialized = IF o.handler # <<>> THEN Append(@, o.handler[1].Unserialize)
                                  ELSE @,
                 !.idx = IF IsOk(o.err) THEN (@ + 1) % (SIZE_MAX + 1) ELSE @,
                 !.pc = IF IsOk(o.err) /\ ~EOS(stream, o.c.pos) THEN "loop" ELSE "done",
                 !.result = ListResult(o.err, EOS(stream, o.c.pos)),
                 !.cause = IF ~IsOk(o.err) THEN o.err ELSE "None"]

\* the loop of ReadAll after the test for the end of the component list,
\* whose result is t
ListEndTested(t) ==
    IF t.ok
    THEN \* the end of the component list: the only way to success
         /\ rd' = [rd EXCEPT !.pc = "done", !.pos = t.pos, !.result = "None"]
         /\ game' = game
    ELSE \E c \in {[NewContext(stream, rd.pos, game, rd.r, rd.dummy_flags)
                        EXCEPT !.oob = rd.oob]},
            hlp \in {NewReadHelper(rd.version, rd.mask, rd.pp)} :
            \E o \in {ReadComponent(c, hlp)} : ComponentRead(o)

\* one iteration of the loop of ReadAll
ReadAllStep ==
    /\ rd.pc = "loop"
    /\ \E t \in {AssertFormatTag(stream, rd.pos, ComponentListTag, FALSE)} :
          ListEndTested(t)
    /\ UNCHANGED <<saved, stream, tamper, aflags, acall>>

\* A restore of the save begins, with the mask it was written with or with
\* every component selected.
ReadAllBegin ==
    /\ rd.pc = "idle"
    /\ saved.made
    /\ \E select_cmp \in {saved.mask, kSaveCmp_All}, svg_version \in VersionChoices,
          restore_flags \in RestoreFlagChoices, dummy_flags \in DummyFlagChoices(game) :
          BeginRead(select_cmp, svg_version, restore_flags, dummy_flags)
    /\ UNCHANGED <<saved, stream, tamper, aflags, acall>>

Next ==
    \/ Play
    \/ \E select_cmp \in MaskChoices : Save(select_cmp)
    \/ ReadAllBegin
    \/ ReadAllStep

Spec == Init /\ [][Next]_vars

----------------------------------------------------------------------------
(* Streams that were altered after they were written                       *)

\* A component record as WriteComponent lays it out: where its opening tag
\* (read with the result t at position pos), version, length, data and
\* closing tag are.
RecordAt(pos, t, size) ==
    [Offset |-> pos, Name |-> t.tag, VersionPos |-> t.pos, SizePos |-> t.pos + 4,
     DataOffset |-> t.pos + 12, DataSize |-> size, ClosePos |-> t.pos + 12 + size,
     End |-> t.pos + 12 + size + Len(t.tag) + 3]

RECURSIVE StreamRecords(_, _)

\* the records from position pos on, the first of which would be rec
RecordsFrom(s, pos, t, rec) ==
    IF AssertFormatTag(s, pos, ComponentListTag, FALSE).ok \/ ~t.ok \/ rec.DataSize < 0
       \/ rec.End > Len(s)
    THEN <<>>
    ELSE <<rec>> \o StreamRecords(s, rec.End)

\* the records from position pos on, where a tag was read with the result t
RecordsTagged(s, pos, t) == RecordsFrom(s, pos, t, RecordAt(pos, t, ReadInt64(s, t.pos + 4)))

\* the component records of a stream from position pos on
StreamRecords(s, pos) == RecordsTagged(s, pos, ReadFormatTag(s, pos, <<>>, TRUE))

\* the records of a whole stream
RecordsOf(s) == StreamRecords(s, Len(WriteFormatTag(ComponentListTag, TRUE)))

\* the elements of a sequence
SeqRange(seq) == {seq[i] : i \in 1..Len(seq)}

\* the stream with the bytes at position pos (0-based) replaced
Overwrite(s, pos, bytes) == Put([buf |-> s, pos |-> pos], bytes).buf

\* the character that replaces one of a tag
BadChar == Ord("X")

\* a stream was saved and neither altered nor read yet
Unaltered == rd.pc = "idle" /\ saved.made /\ tamper = NoTamper

\* the length field of a record is changed to another value: one less, one
\* more, the length of the whole stream, a negative one, or the distance to
\* the closing tag of a later record of the same name
CorruptLength ==
    /\ Unaltered
    /\ \E recs \in {RecordsOf(stream)} :
           \E k \in 1..Len(recs) :
           \E v \in {recs[k].DataSize - 1, recs[k].DataSize + 1, Len(stream), -1}
                       \cup {recs[j].ClosePos - recs[k].DataOffset :
                                j \in {j \in (k + 1)..Len(recs) : recs[j].Name = recs[k].Name}} :
              /\ v # recs[k].DataSize
              /\ stream' = Overwrite(stream, recs[k].SizePos, WriteInt64(v))
              /\ tamper' = [kind |-> "length", at |-> k, value |-> v]
    /\ UNCHANGED <<game, saved, rd, aflags, acall>>

\* the version of a record is changed to one outside the range of a handler
\* of its name
CorruptVersion ==
    /\ Unaltered
    /\ \E recs \in {RecordsOf(stream)} :
           \E k \in 1..Len(recs) :
           \E h \in SeqRange(HandlersNamed(recs[k].Name)) :
           \E v \in {h.Version + 1, h.LowestVersion - 1} :
              /\ stream' = Overwrite(stream, recs[k].VersionPos, WriteInt32(v))
              /\ tamper' = [kind |-> "version", at |-> k, value |-> v]
    /\ UNCHANGED <<game, saved, rd, aflags, acall>>

\* the name in the opening tag of a record is changed to one that no
\* handler has
CorruptName ==
    /\ Unaltered
    /\ \E recs \in {RecordsOf(stream)} :
           \E k \in 1..Len(recs) :
              /\ stream' = Overwrite(stream, recs[k].Offset + 1, <<BadChar>>)
              /\ tamper' = [kind |-> "name", at |-> k, value |-> 0]
    /\ UNCHANGED <<game, saved, rd, aflags, acall>>

\* the closing tag of a record is damaged: its "<", its "/" or its name is
\* changed (value 0, 1, 2), or the tag is taken out (value 3)
CorruptClosingTag ==
    /\ Unaltered
    /\ \E recs \in {RecordsOf(stream)} :
           \E k \in 1..Len(recs), how \in 0..3 :
              /\ stream' = IF how = 3
                           THEN SubSeq(stream, 1, recs[k].ClosePos)
                                    \o SubSeq(stream, recs[k].End + 1, Len(stream))
                           ELSE Overwrite(stream, recs[k].ClosePos + how, <<BadChar>>)
              /\ tamper' = [kind |-> "closing", at |-> k, value |-> how]
    /\ UNCHANGED <<game, saved, rd, aflags, acall>>

\* the ids that replace the one of a room state: below the range, the
\* "not visited" mark, the last room, above the range
RoomIdChoices == {-2, -1, MAX_ROOMS - 1, MAX_ROOMS}

\* the room state of room 0 in the data of "Room States" that begin at pos:
\* where its id, its opening tag, its closing tag are
RoomEntry(pos, g) ==
    [IdPos |-> pos + 4,
     OpenPos |-> pos + 8,
     ClosePos |-> pos + 8 + Len(WriteFormatTag(TagRoomState, TRUE))
                     + Len(WriteObject(g.rooms[1].state))]

\* the first room state of the record rec is given another id, or has a
\* character of its opening or of its closing tag replaced
RoomStateAltered(rec, e) ==
    /\ ReadInt32(stream, e.IdPos) = 0
    /\ \/ \E v \in RoomIdChoices :
             /\ stream' = Overwrite(stream, e.IdPos, WriteInt32(v))
             /\ tamper' = [kind |-> "room_id", at |-> e.IdPos, value |-> v]
       \/ \E at \in {e.OpenPos, e.OpenPos + 1, e.ClosePos, e.ClosePos + 1, e.ClosePos + 2} :
             /\ stream' = Overwrite(stream, at, <<BadChar>>)
             /\ tamper' = [kind |-> "room_tag", at |-> at, value |-> 0]

\* the "Room States" component of the stream is damaged in its data
CorruptRoomState ==
    /\ Unaltered
    /\ \E rec \in {r \in SeqRange(RecordsOf(stream)) : r.Name = NameRoomStates} :
          RoomStateAltered(rec, RoomEntry(rec.DataOffset, saved.g))
    /\ UNCHANGED <<game, saved, rd, aflags, acall>>

\* the numbers of surfaces that a save is made to declare: a negative one,
\* none, one less and one more than the engine holds
SurfaceCountChoices == {-1, 0, MAX_DYNAMIC_SURFACES - 1, MAX_DYNAMIC_SURFACES + 1}

\* the "Dynamic Surfaces" component of the stream declares another number
\* of surfaces
CorruptSurfaceCount ==
    /\ Unaltered
    /\ \E rec \in {r \in SeqRange(RecordsOf(stream)) : r.Name = NameDynamicSurfaces} :
       \E v \in SurfaceCountChoices :
          /\ stream' = Overwrite(stream, rec.DataOffset, WriteInt32(v))
          /\ tamper' = [kind |-> "surface_count", at |-> rec.DataOffset, value |-> v]
    /\ UNCHANGED <<game, saved, rd, aflags, acall>>

\* the places where a stream is cut: inside the opening tag of the list,
\* at the start of each record, inside its opening tag, at the start of its
\* data, inside its data, before and inside its closing tag, at the end of
\* the last one, inside the closing tag of the list
TruncationPoints(s) ==
    {1, Len(s) - 1}
        \cup UNION {{rec.Offset, rec.Offset + 1, rec.DataOffset, rec.ClosePos - 1,
                     rec.ClosePos, rec.End - 1, rec.End} : rec \in SeqRange(RecordsOf(s))}

\* the stream is cut at n bytes
Truncate ==
    /\ Unaltered
    /\ \E n \in TruncationPoints(stream) :
          /\ n < Len(stream)
          /\ stream' = SubSeq(stream, 1, n)
          /\ tamper' = [kind |-> "truncate", at |-> n, value |-> 0]
    /\ UNCHANGED <<game, saved, rd, aflags, acall>>

\* the selection masks that altered streams are read with
TamperMaskChoices == {kSaveCmp_All, kSaveCmp_None, kSaveCmp_ObjectSprites}

\* A restore of the stream begins, altered or not.
ReadAllBeginAltered ==
    /\ rd.pc = "idle"
    /\ saved.made
    /\ \E select_cmp \in TamperMaskChoices :
          BeginRead(select_cmp, kSvgVersion_Cmp_64bit, {}, {})
    /\ UNCHANGED <<saved, stream, tamper, aflags, acall>>

InitAltered ==
    /\ Init
    /\ game = NewGame(1, FALSE)

NextAltered ==
    \/ Save(kSaveCmp_All)
    \/ Save(kSaveCmp_DynamicSprites \cup kSaveCmp_ObjectSprites)
    \/ CorruptLength
    \/ CorruptVersion
    \/ CorruptName
    \/ CorruptClosingTag
    \/ CorruptRoomState
    \/ CorruptSurfaceCount
    \/ Truncate
    \/ ReadAllBeginAltered
    \/ ReadAllStep

SpecAltered == InitAltered /\ [][NextAltered]_vars

----------------------------------------------------------------------------
(* Saves that are restored into a game that was changed since: the game    *)
(* was rebuilt with other characters or script modules                    *)

\* no more than one change is made to a game between a save and a restore
GameAsSaved == rd.pc = "idle" /\ saved.made /\ tamper = NoTamper

\* a character and its move list as a rebuilt game adds them
AddedCharacter == [info |-> 0, extra |-> 0, props |-> 0, timesRun |-> <<0>>]

\* The game is rebuilt with one character less or one more than it had.
ChangeCharacters ==
    /\ GameAsSaved
    /\ \E n \in {Len(game.chars) - 1, Len(game.chars) + 1} :
          /\ n >= 1
          /\ game' = [game EXCEPT !.chars = Resize(@, n, AddedCharacter),
                                  !.mls = Resize(@, CHMLSOFFS + n, 0)]
          /\ tamper' = [kind |-> "characters", at |-> 0, value |-> n]
    /\ UNCHANGED <<saved, stream, rd, aflags, acall>>

\* The game is rebuilt with its script modules in the reverse order.
ReorderModules ==
    /\ GameAsSaved
    /\ Len(game.modules) > 1
    /\ game' = [game EXCEPT !.modules =
                   [i \in 1..Len(@) |-> @[Len(@) + 1 - i]]]
    /\ tamper' = [kind |-> "modules_reordered", at |-> 0, value |-> 0]
    /\ UNCHANGED <<saved, stream, rd, aflags, acall>>

\* The game is rebuilt with one of its script modules under another name.
RenameModule ==
    /\ GameAsSaved
    /\ \E k \in 1..Len(game.modules) :
          /\ game' = [game EXCEPT !.modules[k].name = ModuleName(0)]
          /\ tamper' = [kind |-> "module_renamed", at |-> k, value |-> 0]
    /\ UNCHANGED <<saved, stream, rd, aflags, acall>>

\* The game is rebuilt with a script module whose data is one byte longer
\* or one byte shorter.
ResizeModule ==
    /\ GameAsSaved
    /\ \E k \in 1..Len(game.modules), d \in {-1, 1} :
          /\ Len(game.modules[k].data) + d >= 0
          /\ game' = [game EXCEPT !.modules[k].data = Resize(@, Len(@) + d, 0)]
          /\ tamper' = [kind |-> "module_resized", at |-> k, value |-> d]
    /\ UNCHANGED <<saved, stream, rd, aflags, acall>>

\* The game is rebuilt with one script module more, after the others.
AddModule ==
    /\ GameAsSaved
    /\ game' = [game EXCEPT !.modules =
                   Append(@, [name |-> ModuleName(Len(@) + 1), data |-> <<0>>])]
    /\ tamper' = [kind |-> "module_added", at |-> Len(game.modules) + 1, value |-> 0]
    /\ UNCHANGED <<saved, stream, rd, aflags, acall>>

\* the restoration flags that a restore into a changed game is asked for
EditedFlagChoices == SUBSET PermissionBits

\* A restore of the save begins, into the game as it is now.
ReadAllBeginEdited ==
    /\ rd.pc = "idle"
    /\ saved.made
    /\ \E restore_flags \in EditedFlagChoices :
          BeginRead(saved.mask, kSvgVersion_Cmp_64bit, restore_flags, {})
    /\ UNCHANGED <<saved, stream, tamper, aflags, acall>>

InitEdited ==
    /\ Init
    /\ ~game.legacy272 \/ game = NewGame(1, TRUE)

NextEdited ==
    \/ Save(kSaveCmp_All)
    \/ Save(kSaveCmp_Characters)
    \/ Save(kSaveCmp_Scripts)
    \/ ChangeCharacters
    \/ ReorderModules
    \/ RenameModule
    \/ ResizeModule
    \/ AddModule
    \/ ReadAllBeginEdited
    \/ ReadAllStep

SpecEdited == InitEdited /\ [][NextEdited]_vars

----------------------------------------------------------------------------
(* Content assertions on their own: a reader's calls of them, on the       *)
(* restoration flags and a counter of the restored data                    *)

\* the largest count that is asserted
MaxAssertCount == 1

\* the counts read from a save: uint32_t values, -1 standing for UINT32_MAX
SavedCounts == {-1} \cup 0..MaxAssertCount

\* the assertions that take the restoration flags and a counter
AssertFns == {"AssertGameContent", "AssertGameObjectContent", "AssertGameObjectContent2"}

\* the call of one of them, on objects number 0
AssertResult(fn, new_val, original_val, restore_flags, record_count) ==
    CASE fn = "AssertGameContent" ->
             AssertGameContent(new_val, original_val, restore_flags, record_count)
      [] fn = "AssertGameObjectContent" ->
             AssertGameObjectContent(new_val, original_val, 0, restore_flags, record_count)
      [] fn = "AssertGameObjectContent2" ->
             AssertGameObjectContent2(new_val, original_val, 0, 0, restore_flags, record_count)

\* the flags and the counter after an assertion returned a
Asserted(fn, new_val, original_val, a) ==
    /\ aflags' = a.flags
    /\ acall' = [fn |-> fn, new_val |-> new_val, original_val |-> original_val,
                 flags |-> aflags, count_before |-> acall.count, count |-> a.count,
                 ok |-> a.ok, err |-> a.err]

\* A reader asserts a count of the save against the game's.
AssertCall ==
    /\ \E fn \in AssertFns, new_val \in SavedCounts, original_val \in 0..MaxAssertCount :
          Asserted(fn, new_val, original_val,
                   AssertResult(fn, new_val, original_val, aflags, acall.count))
    /\ UNCHANGED <<game, saved, stream, tamper, rd>>

\* the caller's flags and counter after the default assertion returned a:
\* it worked on locals of its own
AssertedDefault(new_val, original_val, dummy_flags, dummy_count, a) ==
    /\ aflags' = aflags
    /\ acall' = [fn |-> "AssertGameContentDefault", new_val |-> new_val,
                 original_val |-> original_val, flags |-> dummy_flags,
                 count_before |-> acall.count, count |-> acall.count,
                 ok |-> a.ok, err |-> a.err]

\* A reader asserts a count with the default mismatch handling; the flags
\* and the counter it works on are uninitialized locals.
AssertCallDefault ==
    /\ \E new_val \in SavedCounts, original_val \in 0..MaxAssertCount,
          dummy_flags \in SUBSET PermissionBits, dummy_count \in {0, MaxAssertCount} :
          AssertedDefault(new_val, original_val, dummy_flags, dummy_count,
              AssertGameContentDefault(new_val, original_val, dummy_flags, dummy_count))
    /\ UNCHANGED <<game, saved, stream, tamper, rd>>

\* the engine's maxima that counts of a save are asserted against
EngineLimits == {TOTAL_AUDIO_CHANNELS, MAX_GAME_CHANNELS, MAX_DYNAMIC_SURFACES, CHMLSOFFS}

\* A reader asserts that a count of the save (an int: negative, zero, the
\* maximum or one more) does not exceed a maximum of the engine; the
\* assertion is not given the restoration flags.
AssertLimitCall ==
    /\ \E max_count \in EngineLimits :
       \E count \in {-1, 0, max_count, max_count + 1} :
       \E a \in {AssertCompatLimit(count, max_count)} :
          acall' = [fn |-> "AssertCompatLimit", new_val |-> count,
                    original_val |-> max_count, flags |-> aflags,
                    count_before |-> acall.count, count |-> acall.count,
                    ok |-> a.ok, err |-> a.err]
    /\ UNCHANGED <<game, saved, stream, tamper, rd, aflags>>

\* Another restore is prepared, with the flags that its caller permits.
PrepareRestore ==
    /\ \E restore_flags \in SUBSET PermissionBits :
          /\ <<restore_flags, NoAssert>> # <<aflags, acall>>
          /\ aflags' = restore_flags
    /\ acall' = NoAssert
    /\ UNCHANGED <<game, saved, stream, tamper, rd>>

InitAssert ==
    /\ Init
    /\ game = NewGame(1, FALSE)

NextAssert ==
    \/ AssertCall
    \/ AssertCallDefault
    \/ AssertLimitCall
    \/ PrepareRestore

SpecAssert == InitAssert /\ [][NextAssert]_vars

----------------------------------------------------------------------------
(* What a component saves of a state, and where a restore puts it          *)

\* the dynamic sprites whose flags have all of match_flags
SpritesOf(g, match_flags) ==
    {<<i - 1, g.sprites[i].flags, g.sprites[i].bitmap>> :
        i \in {k \in 2..Len(g.sprites) : HasAllBits(g.sprites[k].flags, match_flags)}}

\* the fields of state S that the serializer fn writes
SavedView(fn, S) ==
    CASE fn = "ReadGameState" ->
           <<S.base, S.palette, IF S.legacy272 THEN S.intrVars ELSE <<>>, S.play,
             S.frames_per_second, S.loopcounter, S.ifacepopped, S.game_paused, S.cur_mode,
             S.cur_cursor, S.mouse_on_iface, S.autoRoomViewport, S.cameras, S.viewports>>
      [] fn = "ReadAudio" ->
           <<S.audioClipTypes,
             [i \in 1..TOTAL_AUDIO_CHANNELS |->
                IF S.channels[i].clip >= 0 THEN S.channels[i] ELSE <<>>],
             S.crossFading, S.crossFadeVolumePerStep, S.crossFadeStep,
             S.crossFadeVolumeAtStart, S.current_music_type,
             [i \in 1..S.numGameChannels |-> S.ambient[i]]>>
      [] fn = "ReadCharacters" ->
           [i \in 1..Len(S.chars) |->
              <<S.chars[i].info, S.chars[i].extra, S.chars[i].props,
                IF S.legacy272 THEN S.chars[i].timesRun ELSE <<>> >>]
      [] fn = "ReadDialogs" -> S.dialog
      [] fn = "ReadGUI" ->
           <<S.guis, S.guibuts, S.guilabels, S.guiinv, S.guislider, S.guitext, S.guilist,
             S.animbuts>>
      [] fn = "ReadInventory" ->
           [i \in 1..Len(S.invinfo) |->
              <<S.invinfo[i].info, S.invinfo[i].props,
                IF S.legacy272 THEN S.invinfo[i].timesRun ELSE <<>> >>]
      [] fn = "ReadMouseCursors" -> S.mcurs
      [] fn = "ReadViews" -> S.views
      [] fn = "ReadDynamicSprites" -> SpritesOf(S, {SPF_DYNAMICALLOC})
      [] fn = "ReadObjectSprites" -> SpritesOf(S, {SPF_DYNAMICALLOC, SPF_OBJECTOWNED})
      [] fn = "ReadOverlays" ->
           {<<S.overs[i].type, S.overs[i].data, S.overs[i].bitmap>> :
               i \in {k \in 1..Len(S.overs) : S.overs[k].type >= 0}}
      [] fn = "ReadDynamicSurfaces" -> S.dynamicallyCreatedSurfaces
      [] fn = "ReadScriptModules" ->
           <<S.globaldata, {<<S.modules[i].name, S.modules[i].data>> : i \in 1..Len(S.modules)}>>
      [] fn = "ReadRoomStates" ->
           {<<i - 1, S.rooms[i].state>> :
               i \in {k \in 1..Len(S.rooms) : S.rooms[k].valid /\ S.rooms[k].beenhere}}
      [] fn = "ReadThisRoom" ->
           IF S.displayed_room < 0 THEN <<S.displayed_room>>
           ELSE <<S.displayed_room, S.raw_modified,
                  [i \in 1..MAX_ROOM_BGFRAMES |-> IF S.raw_modified[i] THEN S.bgframes[i] ELSE 0],
                  S.raw_saved_screen, S.regions, S.walkareas, S.musicVolume,
                  IF S.displayed_room < MAX_ROOMS THEN 0 ELSE S.troom>>
      [] fn = "ReadMoveLists" -> S.mls
      [] fn = "ReadManagedPool" -> S.pool
      [] fn = "ReadPluginData" -> S.plugindata

\* the playback that a restored channel info stands for
ChannelOf(info) ==
    [clip |-> info.ClipID, pos |-> info.Pos, priority |-> info.Priority,
     repeat |-> info.Repeat # 0, vol255 |-> info.Vol, vol100 |-> info.VolAsPercent,
     pan |-> info.Pan, speed |-> info.Speed, xSource |-> info.XSource,
     ySource |-> info.YSource, maxDist |-> info.MaxDist]

\* the ambient sound of channel i after a restore: one that was playing is
\* started again on its channel from the restored data
AmbientOf(g, r, i) ==
    IF i - 1 >= NUM_SPEECH_CHANS /\ r.DoAmbient[i] # 0
    THEN [channel |-> i - 1, num |-> r.DoAmbient[i]]
    ELSE g.ambient[i]

\* the overlay image that the restored data holds for an overlay
OverlayImageOf(r, type) ==
    IF \E p \in r.OverlayImages : p[1] = type
    THEN (CHOOSE p \in r.OverlayImages : p[1] = type)[2]
    ELSE 0

\* the same fields where the deserializer fn puts them: in the live game g
\* or in the restored data r
RestoredView(fn, g, r) ==
    CASE fn = "ReadGameState" ->
           <<g.base, g.palette, IF g.legacy272 THEN g.intrVars ELSE <<>>, g.play,
             r.FPS, g.loopcounter, g.ifacepopped, g.game_paused, r.CursorMode,
             r.CursorID, g.mouse_on_iface, g.autoRoomViewport,
             [i \in 1..Len(r.Cameras) |->
                [locked |-> TestBit(r.Cameras[i].Flags, kSvgCamPosLocked),
                 Left |-> r.Cameras[i].Left, Top |-> r.Cameras[i].Top,
                 Width |-> r.Cameras[i].Width, Height |-> r.Cameras[i].Height]],
             [i \in 1..Len(r.Viewports) |->
                [visible |-> TestBit(r.Viewports[i].Flags, kSvgViewportVisible),
                 Left |-> r.Viewports[i].Left, Top |-> r.Viewports[i].Top,
                 Width |-> r.Viewports[i].Width, Height |-> r.Viewports[i].Height,
                 ZOrder |-> r.Viewports[i].ZOrder, CamID |-> r.Viewports[i].CamID]]>>
      [] fn = "ReadAudio" ->
           <<g.audioClipTypes,
             [i \in 1..TOTAL_AUDIO_CHANNELS |->
                IF r.AudioChans[i].ClipID >= 0 THEN ChannelOf(r.AudioChans[i]) ELSE <<>>],
             g.crossFading, g.crossFadeVolumePerStep, g.crossFadeStep,
             g.crossFadeVolumeAtStart, g.current_music_type,
             [i \in 1..g.numGameChannels |-> AmbientOf(g, r, i)]>>
      [] fn = "ReadOverlays" ->
           {<<g.overs[i].type, g.overs[i].data, OverlayImageOf(r, g.overs[i].type)>> :
               i \in {k \in 1..Len(g.overs) : g.overs[k].type >= 0}}
      [] fn = "ReadDynamicSurfaces" -> r.DynamicSurfaces
      [] fn = "ReadScriptModules" -> <<r.GlobalScript, r.ScriptModules>>
      [] fn = "ReadThisRoom" ->
           IF g.displayed_room < 0 THEN <<g.displayed_room>>
           ELSE <<g.displayed_room, g.raw_modified, r.RoomBkgScene, g.raw_saved_screen,
                  [i \in 1..MAX_ROOM_REGIONS |->
                     [Light |-> r.RoomLightLevels[i], Tint |-> r.RoomTintLevels[i]]],
                  [i \in 1..MAX_WALK_AREAS |->
                     [ScalingFar |-> r.RoomZoomLevels1[i], ScalingNear |-> r.RoomZoomLevels2[i]]],
                  r.RoomVolume,
                  IF g.displayed_room < MAX_ROOMS THEN 0 ELSE g.troom>>
      [] OTHER -> SavedView(fn, g)

\* the handlers that a save or a restore with that selection runs
SelectedHandlers(select_cmp) ==
    {i \in 1..Len(ComponentHandlers) : Selected(ComponentHandlers[i], select_cmp)}

----------------------------------------------------------------------------
(* Properties                                                              *)

\* a restore has ended that read the stream as it was written, with the
\* mask it was written with and a general version with 64-bit lengths
RoundTripDone ==
    /\ rd.pc = "done"
    /\ saved.made /\ IsOk(saved.err)
    /\ tamper = NoTamper
    /\ rd.mask = saved.mask
    /\ rd.version >= kSvgVersion_Cmp_64bit

\* C1. Round trip: whatever the selection mask and the saved state S, reading
\* the stream that WriteAllCommon wrote of S back with the same mask, 64-bit
\* lengths and the same game succeeds, sets no restoration flag, touches no
\* array outside its bounds, and leaves every field that the selected
\* components saved equal to its value in S.
C1_RoundTrip ==
    RoundTripDone =>
        /\ rd.result = "None"
        /\ rd.r.RestoreFlags \cap ResultBits = {}
        /\ rd.oob = {}
        /\ \A i \in SelectedHandlers(saved.mask) :
              RestoredView(ComponentHandlers[i].Unserialize, game, rd.r)
                  = SavedView(ComponentHandlers[i].Unserialize, saved.g)

\* a round trip of every component of a legacy game, into a game whose state
\* had moved on since the save
C1_Witness ==
    /\ RoundTripDone
    /\ saved.mask = kSaveCmp_All
    /\ saved.g.legacy272
    /\ Len(rd.unserialized) = Cardinality(SelectedHandlers(kSaveCmp_All))
    /\ rd.before.base # saved.g.base
    /\ game.base = saved.g.base

\* the stream s holds exactly these bytes from position pos (0-based) on
BytesAt(s, pos, bytes) ==
    /\ pos >= 0
    /\ pos + Len(bytes) <= Len(s)
    /\ SubSeq(s, pos + 1, pos + Len(bytes)) = bytes

\* a restore of an altered or unaltered stream has called ReadComponent
\* and the call went as far as the test of the expected position
PositionTested == rd.last.called /\ rd.last.test_pos # -1

\* C2. Framing on read: ReadComponent returns success only if it ran a
\* handler or skipped the data and the stream then stood at DataOffset +
\* DataSize; whenever the position tested differs from it, the call returns
\* ComponentSizeMismatch, examines no closing tag and reads nothing more.
C2_Framing ==
    rd.last.called =>
        /\ IsOk(rd.last.err) =>
              /\ rd.last.handler # "" \/ rd.last.skipped
              /\ rd.last.test_pos # -1
              /\ rd.last.test_pos - rd.last.info.DataOffset = rd.last.info.DataSize
        /\ (PositionTested
              /\ rd.last.test_pos - rd.last.info.DataOffset # rd.last.info.DataSize) =>
              /\ rd.last.err = "ComponentSizeMismatch"
              /\ ~rd.last.closing
              /\ rd.last.end_pos = rd.last.test_pos

\* a handler read a component whose declared length had been altered, and
\* the position after it was refused
C2_Witness ==
    /\ tamper.kind = "length"
    /\ rd.last.called
    /\ rd.last.handler # ""
    /\ rd.last.err = "ComponentSizeMismatch"
    /\ rd.last.test_pos - rd.last.info.DataOffset # rd.last.info.DataSize

\* the record of the saved stream whose length field was altered
AlteredRecord == RecordsOf(saved.buf)[tamper.at]

\* the restore's selection runs a handler of that name
NameSelected(name) ==
    \E i \in 1..Len(ComponentHandlers) :
        ComponentHandlers[i].Name = name /\ Selected(ComponentHandlers[i], rd.mask)

\* ReadAll failed at the record whose length was altered, because of the
\* size mismatch
FailedOnSizeOf(rec) ==
    /\ rd.result = "ComponentUnserialization"
    /\ rd.cause = "ComponentSizeMismatch"
    /\ rd.last.info.Offset = rec.Offset
    /\ rd.last.info.Name = rec.Name
    /\ rd.idx = tamper.at - 1

\* a restore of a stream one of whose length fields was altered has ended
LengthAlteredDone == rd.pc = "done" /\ tamper.kind = "length"

\* C3 as stated: an altered length field makes ReadAll fail with
\* ComponentSizeMismatch for that component under every selection mask,
\* also when the component is skipped.
C3_AnyMask == LengthAlteredDone => FailedOnSizeOf(AlteredRecord)

\* C3. In a stream written by WriteAllCommon, a changed length field of one
\* component makes ReadAll fail with ComponentUnserialization caused by
\* ComponentSizeMismatch at that component whenever the selection mask runs
\* a handler of its name. When the component is skipped, the seek follows
\* the altered length: the size mismatch is reported only if the seek ran
\* into an end of the stream, and otherwise the closing tag is looked for
\* at the altered position.
C3_LengthAltered ==
    LengthAlteredDone =>
        IF NameSelected(AlteredRecord.Name)
        THEN FailedOnSizeOf(AlteredRecord)
        ELSE /\ rd.last.info.Offset = AlteredRecord.Offset => rd.last.skipped
             /\ FailedOnSizeOf(AlteredRecord)
                    <=> (AlteredRecord.DataOffset + tamper.value > Len(stream)
                            \/ AlteredRecord.DataOffset + tamper.value < 0)

\* a length was altered to one less and the handler of the component ran
C3_Witness ==
    /\ LengthAlteredDone
    /\ NameSelected(AlteredRecord.Name)
    /\ tamper.value = AlteredRecord.DataSize - 1
    /\ rd.last.handler # ""
    /\ FailedOnSizeOf(AlteredRecord)

\* the component names of the handlers that a save with that selection
\* runs, in the order of the table
SelectedNames(select_cmp) ==
    [k \in 1..Cardinality(SelectedHandlers(select_cmp)) |->
        ComponentHandlers[CHOOSE i \in SelectedHandlers(select_cmp) :
            Cardinality({j \in SelectedHandlers(select_cmp) : j <= i}) = k].Name]

\* the records recs fill the stream s between the tags of the list, one
\* after the other, each one opened and closed by the tags of its name
Balanced(s, recs) ==
    /\ BytesAt(s, 0, WriteFormatTag(ComponentListTag, TRUE))
    /\ \A k \in 1..Len(recs) :
          /\ recs[k].Offset = IF k = 1 THEN Len(WriteFormatTag(ComponentListTag, TRUE))
                              ELSE recs[k - 1].End
          /\ BytesAt(s, recs[k].Offset, WriteFormatTag(recs[k].Name, TRUE))
          /\ recs[k].DataSize >= 0
          /\ BytesAt(s, recs[k].ClosePos, WriteFormatTag(recs[k].Name, FALSE))
          /\ recs[k].End = recs[k].ClosePos + Len(WriteFormatTag(recs[k].Name, FALSE))
    /\ BytesAt(s, IF recs = <<>> THEN Len(WriteFormatTag(ComponentListTag, TRUE))
                  ELSE recs[Len(recs)].End,
               WriteFormatTag(ComponentListTag, FALSE))
    /\ Len(s) = Len(WriteFormatTag(ComponentListTag, FALSE))
                   + (IF recs = <<>> THEN Len(WriteFormatTag(ComponentListTag, TRUE))
                      ELSE recs[Len(recs)].End)

\* C4. Tag balance on write: a stream that WriteAllCommon produced with
\* success is <Components>, then one record per selected handler in the
\* order of the table, then </Components>; each record is <Name>, the
\* version, the length, a payload of that length, and right after it
\* </Name> with the same name.
C4_TagBalance ==
    (saved.made /\ IsOk(saved.err)) =>
        \A recs \in {RecordsOf(saved.buf)} :
            /\ Balanced(saved.buf, recs)
            /\ [k \in 1..Len(recs) |-> recs[k].Name] = SelectedNames(saved.mask)

\* every component was saved
C4_Witness ==
    /\ saved.made /\ IsOk(saved.err)
    /\ saved.mask = kSaveCmp_All
    /\ Len(RecordsOf(saved.buf)) = Cardinality(SelectedHandlers(kSaveCmp_All))
    /\ Len(RecordsOf(saved.buf)) > 1

\* C5. Tag balance on read: once a component's data was consumed at exactly
\* its declared length, ReadComponent examines the closing tag, succeeds
\* if the next bytes are </Name> with the name of the opening tag, leaving
\* the stream right after them, and fails with ComponentClosingTagFormat
\* if they are anything else or are missing.
C5_ClosingTag ==
    (PositionTested
        /\ rd.last.test_pos - rd.last.info.DataOffset = rd.last.info.DataSize) =>
        /\ rd.last.closing
        /\ IF BytesAt(stream, rd.last.test_pos, WriteFormatTag(rd.last.info.Name, FALSE))
           THEN /\ rd.last.err = "None"
                /\ rd.last.end_pos
                      = rd.last.test_pos + Len(WriteFormatTag(rd.last.info.Name, FALSE))
           ELSE rd.last.err = "ComponentClosingTagFormat"

\* a handler consumed the data of a component whose closing tag bore
\* another name
C5_Witness ==
    /\ tamper.kind = "closing" /\ tamper.value = 2
    /\ PositionTested
    /\ rd.last.handler # ""
    /\ rd.last.test_pos - rd.last.info.DataOffset = rd.last.info.DataSize
    /\ rd.last.err = "ComponentClosingTagFormat"

\* the last ReadComponent call read a well-formed opening tag
OpeningTagRead ==
    /\ rd.last.called
    /\ rd.last.info.Name # <<>>
    /\ BytesAt(stream, rd.last.info.Offset, WriteFormatTag(rd.last.info.Name, TRUE))

\* the handlers (indexes in the table) of the name of the component read last
NamedHandlers ==
    {i \in 1..Len(ComponentHandlers) : ComponentHandlers[i].Name = rd.last.info.Name}

\* the saved version of the component read last is outside the range of
\* the handler number i
VersionOutOfRange(i) ==
    \/ rd.last.info.Version > ComponentHandlers[i].Version
    \/ rd.last.info.Version < ComponentHandlers[i].LowestVersion

\* the call was refused because of the version, before anything was read
\* of the data
RefusedForVersion ==
    /\ rd.last.err = "UnsupportedComponentVersion"
    /\ rd.last.handler = ""
    /\ ~rd.last.skipped
    /\ rd.last.end_pos = rd.last.info.DataOffset

\* C6 as stated: a record whose version is outside the range of a handler
\* of its name is refused with UnsupportedComponentVersion under every
\* selection mask.
C6_AnyMask ==
    (OpeningTagRead /\ \E i \in NamedHandlers : VersionOutOfRange(i)) => RefusedForVersion

\* the handlers of the component's name that the restore's selection runs
ChosenHandlers ==
    {i \in NamedHandlers : Selected(ComponentHandlers[i], rd.mask)}

\* C6. Version gating: when the selection mask runs a handler of the
\* record's name, the first such handler of the table decides: a saved
\* version greater than its Version or lower than its LowestVersion makes
\* ReadComponent fail with UnsupportedComponentVersion, whatever the data,
\* and no deserializer is invoked. When the mask runs no handler of that
\* name the version is not tested: the data is skipped.
C6_VersionGating ==
    OpeningTagRead =>
        IF ChosenHandlers # {}
        THEN RefusedForVersion
                <=> VersionOutOfRange(CHOOSE i \in ChosenHandlers :
                                         \A j \in ChosenHandlers : i <= j)
        ELSE /\ rd.last.err # "UnsupportedComponentVersion"
             /\ NamedHandlers # {} => rd.last.skipped

\* a record whose version was altered to the one below its handler's
\* range was refused
C6_Witness ==
    /\ tamper.kind = "version"
    /\ OpeningTagRead
    /\ ChosenHandlers # {}
    /\ \E i \in ChosenHandlers : rd.last.info.Version = ComponentHandlers[i].LowestVersion - 1
    /\ RefusedForVersion

\* C7. A record whose name no handler of the table has makes ReadComponent
\* fail with UnsupportedComponent: no handler runs, the data is not
\* skipped, the stream stays at the start of the data, ReadAll reads no
\* further component and returns ComponentUnserialization with that cause.
C7_UnknownName ==
    (OpeningTagRead /\ NamedHandlers = {}) =>
        /\ rd.last.err = "UnsupportedComponent"
        /\ rd.last.handler = ""
        /\ ~rd.last.skipped
        /\ rd.last.test_pos = -1
        /\ rd.last.end_pos = rd.last.info.DataOffset
        /\ rd.pos = rd.last.info.DataOffset
        /\ rd.pc = "done"
        /\ rd.result = "ComponentUnserialization"
        /\ rd.cause = "UnsupportedComponent"

\* a record that was not the last one got a name unknown to the table, and
\* the restore ended at it
C7_Witness ==
    /\ tamper.kind = "name"
    /\ tamper.at < Len(RecordsOf(saved.buf))
    /\ OpeningTagRead /\ NamedHandlers = {}
    /\ rd.last.info.Offset = RecordsOf(saved.buf)[tamper.at].Offset
    /\ rd.result = "ComponentUnserialization"

\* a restore of a stream that was cut has ended
TruncatedDone == rd.pc = "done" /\ tamper.kind = "truncate"

\* C8 as stated: every stream that ends before the closing tag of the list
\* makes ReadAll return ComponentListClosingTagMissing.
C8_AlwaysMissingTag == TruncatedDone => rd.result = "ComponentListClosingTagMissing"

\* the stream was cut right after a complete component record
CutAfterRecord == \E rec \in SeqRange(RecordsOf(saved.buf)) : Len(stream) = rec.End

\* C8. ReadAll returns success only right after it read the closing tag
\* </Components>. A stream that ends before that tag always makes it
\* return an error: ComponentListClosingTagMissing when the stream ends
\* right after a complete component, ComponentListOpeningTagFormat when it
\* ends inside the opening tag of the list, and ComponentUnserialization
\* when it ends anywhere else (right after the opening tag of the list,
\* inside a component, inside the closing tag of the list).
C8_ListEnd ==
    /\ (rd.pc = "done" /\ rd.result = "None") =>
          BytesAt(stream, rd.pos - Len(WriteFormatTag(ComponentListTag, FALSE)),
                  WriteFormatTag(ComponentListTag, FALSE))
    /\ TruncatedDone =>
          /\ rd.result # "None"
          /\ rd.result = "ComponentListClosingTagMissing" <=> CutAfterRecord
          /\ rd.result = "ComponentListOpeningTagFormat"
                <=> Len(stream) < Len(WriteFormatTag(ComponentListTag, TRUE))
          /\ rd.result \in {"ComponentListClosingTagMissing",
                            "ComponentListOpeningTagFormat", "ComponentUnserialization"}

\* a stream cut after its last component was read to its end by handlers
C8_Witness ==
    /\ TruncatedDone
    /\ rd.mask = kSaveCmp_All
    /\ Len(stream) = RecordsOf(saved.buf)[Len(RecordsOf(saved.buf))].End
    /\ rd.idx = Len(RecordsOf(saved.buf))
    /\ rd.result = "ComponentListClosingTagMissing"

\* one of the assertions on the restoration flags and a counter was called
FlagsAsserted == acall.fn \in AssertFns

\* C9. Content assertion, equal counts: when the saved count N equals the
\* game's count M, AssertGameContent, AssertGameObjectContent and
\* AssertGameObjectContent2 return success whatever the restoration flags
\* are, leave the flags as they were and set the record count to N.
C9_EqualCounts ==
    (FlagsAsserted /\ acall.new_val = acall.original_val) =>
        /\ acall.ok
        /\ acall.err = "None"
        /\ aflags = acall.flags
        /\ acall.count = acall.new_val

\* equal counts were asserted under flags that tolerate nothing, with a
\* counter that held another value
C9_Witness ==
    /\ acall.fn = "AssertGameContent"
    /\ acall.new_val = acall.original_val
    /\ acall.flags = {}
    /\ acall.count_before # acall.new_val
    /\ acall.ok

\* C10. Content assertion, extra in save: when the saved count N is
\* greater than the game's count M (as unsigned numbers), the assertion
\* succeeds if and only if AllowMismatchExtra is among the restoration
\* flags; on success ExtraDataInSave is added to the flags and nothing
\* else changes in them, on failure the error is GameContentAssertion and
\* the flags stay as they were. ClearData and AllowMismatchLess make no
\* difference.
C10_ExtraInSave ==
    (FlagsAsserted /\ UGt(acall.new_val, acall.original_val)) =>
        /\ acall.ok <=> kSaveRestore_AllowMismatchExtra \in acall.flags
        /\ acall.ok =>
              /\ acall.err = "None"
              /\ aflags = acall.flags \cup {kSaveRestore_ExtraDataInSave}
        /\ ~acall.ok =>
              /\ acall.err = "GameContentAssertion"
              /\ aflags = acall.flags

\* an extra count was tolerated without ClearData and AllowMismatchLess
C10_Witness ==
    /\ FlagsAsserted
    /\ UGt(acall.new_val, acall.original_val)
    /\ acall.flags = {kSaveRestore_AllowMismatchExtra}
    /\ acall.ok
    /\ aflags = {kSaveRestore_AllowMismatchExtra, kSaveRestore_ExtraDataInSave}

\* C11. Content assertion, missing in save: when the saved count N is lower
\* than the game's count M (as unsigned numbers), the assertion fails with
\* GameContentAssertion and unchanged flags if AllowMismatchLess is not
\* set; with AllowMismatchLess set, MissingDataInSave is added to the flags
\* and the assertion fails with GameContentAssert_RequireClearReload if
\* ClearData is not set, and succeeds if it is.
C11_MissingInSave ==
    (FlagsAsserted /\ ULt(acall.new_val, acall.original_val)) =>
        IF kSaveRestore_AllowMismatchLess \notin acall.flags
        THEN /\ ~acall.ok
             /\ acall.err = "GameContentAssertion"
             /\ aflags = acall.flags
        ELSE /\ aflags = acall.flags \cup {kSaveRestore_MissingDataInSave}
             /\ IF kSaveRestore_ClearData \notin acall.flags
                THEN ~acall.ok /\ acall.err = "GameContentAssert_RequireClearReload"
                ELSE acall.ok /\ acall.err = "None"

\* fewer data were tolerated, but the data had not been cleared
C11_Witness ==
    /\ FlagsAsserted
    /\ ULt(acall.new_val, acall.original_val)
    /\ acall.flags = {kSaveRestore_AllowMismatchLess, kSaveRestore_AllowMismatchExtra}
    /\ ~acall.ok
    /\ acall.err = "GameContentAssert_RequireClearReload"
    /\ kSaveRestore_MissingDataInSave \in aflags

\* ReadCharacters returned from reading a save that holds more characters
\* than the game has now, the extra data being tolerated
ExtraCharactersRead ==
    /\ rd.last.called
    /\ rd.last.handler = "ReadCharacters"
    /\ tamper.kind = "characters"
    /\ Len(saved.g.chars) > Len(game.chars)
    /\ kSaveRestore_AllowMismatchExtra \in rd.r.RestoreFlags

\* C12. When ReadCharacters reads a save of N characters into a game of
\* M < N characters with AllowMismatchExtra set, it succeeds, records
\* ExtraDataInSave and accesses no character, character-extra, property or
\* move-list slot at an index >= M.
C12_OnlyGameSlots ==
    ExtraCharactersRead =>
        /\ rd.last.err = "None"
        /\ kSaveRestore_ExtraDataInSave \in rd.r.RestoreFlags
        /\ rd.oob \cap {"chars", "mls"} = {}

\* the read succeeded and recorded ExtraDataInSave, and it indexed the
\* game's character arrays past their last element
C12_Witness ==
    /\ ExtraCharactersRead
    /\ rd.last.err = "None"
    /\ kSaveRestore_ExtraDataInSave \in rd.r.RestoreFlags
    /\ "chars" \in rd.oob

\* ReadScriptModules returned from reading a save one of whose modules has
\* a name that no module of the game bears now
UnknownModuleRead ==
    /\ rd.last.called
    /\ rd.last.handler = "ReadScriptModules"
    /\ tamper.kind = "module_renamed"

\* C13. In ReadScriptModules a saved module whose name is the name of no
\* module of the game makes the read fail with GameContentAssertion, whatever
\* the restoration flags are; no mismatch is recorded in them.
C13_ExtraModule ==
    UnknownModuleRead =>
        /\ rd.last.err = "GameContentAssertion"
        /\ rd.r.RestoreFlags \cap {kSaveRestore_ExtraDataInSave,
                                   kSaveRestore_MissingDataInSave} = {}

\* the second module of the save is the unknown one, and every permission
\* was given
C13_Witness ==
    /\ UnknownModuleRead
    /\ tamper.at = 2
    /\ PermissionBits \subseteq rd.r.RestoreFlags
    /\ rd.last.err = "GameContentAssertion"
    /\ rd.pc = "done"
    /\ rd.result = "ComponentUnserialization"

\* ReadCharacters returned from reading a save that holds fewer characters
\* than the game has now, the caller not having asked for ClearData
FewerCharactersRead ==
    /\ rd.last.called
    /\ rd.last.handler = "ReadCharacters"
    /\ tamper.kind = "characters"
    /\ Len(saved.g.chars) < Len(game.chars)
    /\ kSaveRestore_ClearData \notin rd.r.RestoreFlags

\* C14 as it is stated: a saved count lower than the game's, ClearData not
\* being set, aborts the restore with GameContentAssert_RequireClearReload as
\* the cause, and the live game is as it was when ReadAll was called.
C14_NothingApplied ==
    FewerCharactersRead =>
        /\ rd.pc = "done"
        /\ rd.result = "ComponentUnserialization"
        /\ rd.cause = "GameContentAssert_RequireClearReload"
        /\ game = DoBeforeRestore(rd.before)

\* C14. A saved count lower than the game's, ClearData not being set, aborts
\* the restore at that component: ReadAll returns ComponentUnserialization,
\* whose cause is GameContentAssert_RequireClearReload when AllowMismatchLess
\* is set (MissingDataInSave is then recorded) and GameContentAssertion when
\* it is not; the failing component has applied nothing of its own (the
\* characters are as they were), what earlier components applied stays.
C14_ShrinkAborts ==
    FewerCharactersRead =>
        /\ rd.pc = "done"
        /\ rd.result = "ComponentUnserialization"
        /\ rd.cause = rd.last.err
        /\ IF kSaveRestore_AllowMismatchLess \in rd.r.RestoreFlags
           THEN /\ rd.cause = "GameContentAssert_RequireClearReload"
                /\ kSaveRestore_MissingDataInSave \in rd.r.RestoreFlags
           ELSE /\ rd.cause = "GameContentAssertion"
                /\ kSaveRestore_MissingDataInSave \notin rd.r.RestoreFlags
        /\ game.chars = rd.before.chars
        /\ rd.unserialized[Len(rd.unserialized)] = "ReadCharacters"

\* the restore was aborted with RequireClearReload after an earlier
\* component had changed the live game
C14_Witness ==
    /\ FewerCharactersRead
    /\ rd.cause = "GameContentAssert_RequireClearReload"
    /\ Len(rd.unserialized) > 1
    /\ game # DoBeforeRestore(rd.before)

\* the errors that a serializer is taken to return when it fails
SerializerFailures == {"GameObjectInitFailed", "InconsistentFormat"}

\* WriteComponent's stream at the return of the handler's serializer, for the
\* first component of a list
SerializerReturned(hdlr) ==
    Put(Put(Put(Put(NewOut, WriteFormatTag(ComponentListTag, TRUE)),
                WriteFormatTag(hdlr.Name, TRUE)), WriteInt32(hdlr.Version)), WriteInt64(0))

\* WriteComponent and the loop of WriteAllCommon after the serializer of
\* handler type returned e: the error is wrapped, nothing more is written
WriteAborts(type, e, r) ==
    \A w \in {WriteComponentEnd(r, ComponentHandlers[type], r.out.pos - 8)} :
        /\ w.err = e
        /\ Len(w.out.buf) = Len(r.out.buf)
        /\ WriteComponentDone(w, kSaveCmp_All, game, type) =
              [out |-> w.out, err |-> "ComponentSerialization", cause |-> e, type |-> type]

\* ReadComponent failed for the component at position rd.idx
ComponentFailed == rd.last.called /\ ~IsOk(rd.last.err)

\* C15. The first failing component aborts the whole operation: when
\* ReadComponent fails for the component at position k, ReadAll returns
\* ComponentUnserialization whose cause is that component's error and no
\* Unserialize is called for a component after k; when a serializer fails,
\* WriteAllCommon returns ComponentSerialization with that cause and writes
\* nothing more.
C15_FirstFailureAborts ==
    /\ ComponentFailed =>
          /\ rd.pc = "done"
          /\ rd.result = "ComponentUnserialization"
          /\ rd.cause = rd.last.err
          /\ Len(rd.unserialized) <= rd.idx + 1
    /\ \A type \in 1..Len(ComponentHandlers), e \in SerializerFailures :
          WriteAborts(type, e, [out |-> SerializerReturned(ComponentHandlers[type]), err |-> e])

\* a component failed in its Unserialize, after another one was read and
\* before others that the stream holds
C15_Witness ==
    /\ ComponentFailed
    /\ rd.last.handler # ""
    /\ rd.idx >= 1
    /\ Len(RecordsOf(saved.buf)) > rd.idx + 1
    /\ rd.result = "ComponentUnserialization"

\* the entries of the handler table whose Selection has a bit of the mask
MaskedEntries(select_cmp) ==
    {i \in 1..Len(ComponentHandlers) : ComponentHandlers[i].Selection \cap select_cmp # {}}

\* these entries in the order of the table
EntriesInOrder(entries) ==
    [k \in 1..Cardinality(entries) |->
        CHOOSE i \in entries : Cardinality({j \in entries : j <= i}) = k]

\* the record rec of the stream s is the one that WriteComponent writes for
\* the handler hdlr: its name, its version, its serializer's data
RecordOf(s, rec, hdlr, data) ==
    /\ rec.Name = hdlr.Name
    /\ ReadInt32(s, rec.VersionPos) = hdlr.Version
    /\ rec.DataSize = Len(data)
    /\ BytesAt(s, rec.DataOffset, data)

\* the records recs are those of the table's entries sel, one for each, in
\* their order, and the stream s holds nothing else between the list's tags
RecordsOfEntries(s, recs, sel, g) ==
    /\ Len(recs) = Len(sel)
    /\ \A k \in 1..Len(recs) :
          /\ recs[k].Offset = IF k = 1 THEN Len(WriteFormatTag(ComponentListTag, TRUE))
                              ELSE recs[k - 1].End
          /\ RecordOf(s, recs[k], ComponentHandlers[sel[k]],
                      Serialize(ComponentHandlers[sel[k]], NewOut, g).out.buf)
    /\ Len(s) = Len(WriteFormatTag(ComponentListTag, FALSE))
                   + (IF recs = <<>> THEN Len(WriteFormatTag(ComponentListTag, TRUE))
                      ELSE recs[Len(recs)].End)

\* C16. WriteAllCommon writes exactly one component record for every entry
\* of the handler table whose Selection intersects the requested mask and
\* none for the others; the records are in the order of the table, for every
\* mask.
C16_OneRecordEach ==
    (saved.made /\ IsOk(saved.err)) =>
        RecordsOfEntries(saved.buf, RecordsOf(saved.buf),
                         EntriesInOrder(MaskedEntries(saved.mask)), saved.g)

\* a save of three components that are not next to each other in the
\* table: the characters, the loaded room, the move lists
C16_Witness ==
    /\ saved.made /\ IsOk(saved.err)
    /\ saved.mask = kSaveCmp_Characters \cup kSaveCmp_ThisRoom
    /\ Len(RecordsOf(saved.buf)) = 3
    /\ RecordsOf(saved.buf)[1].Name = NameCharacters

\* the entries of the handler table that bear that name and whose Selection
\* has a bit of the mask
NamedEntries(name, select_cmp) ==
    {i \in MaskedEntries(select_cmp) : ComponentHandlers[i].Name = name}

\* ReadComponent has read a component's info and has not refused its version
HandlerSought ==
    /\ rd.last.called
    /\ rd.last.err \notin {"ComponentOpeningTagFormat", "UnsupportedComponentVersion"}

\* C17. Read dispatch: of the handlers registered under the component's
\* name ("Dynamic Sprites" has two), ReadComponent calls the first one in the
\* order of the table whose Selection intersects the selection mask; a later
\* one is called only when no earlier one intersects the mask, and none when
\* none of them does.
C17_FirstSelected ==
    HandlerSought =>
        \A es \in {NamedEntries(rd.last.info.Name, rd.mask)} :
            IF es = {} THEN rd.last.handler = ""
            ELSE rd.last.handler =
                    ComponentHandlers[CHOOSE i \in es : \A j \in es : i <= j].Unserialize

\* both handlers of "Dynamic Sprites" are selected, and the record that
\* WriteObjectSprites wrote was read by the first of them too
C17_Witness ==
    /\ HandlerSought
    /\ rd.mask = kSaveCmp_DynamicSprites \cup kSaveCmp_ObjectSprites
    /\ Cardinality(NamedEntries(rd.last.info.Name, rd.mask)) = 2
    /\ rd.unserialized = <<"ReadDynamicSprites", "ReadDynamicSprites">>

\* the in-memory state is the one that the save was written from
SameStateAsSaved == saved.made /\ IsOk(saved.err) /\ game = saved.g

\* a second run of WriteAllCommon on the state g with the mask select_cmp
\* writes the bytes s again, into a new stream as well as after the bytes of
\* the first run
WrittenAgain(s, select_cmp, g) ==
    /\ WriteAllCommon(NewOut, select_cmp, g) =
          [out |-> [buf |-> s, pos |-> Len(s)], err |-> "None", cause |-> "None", type |-> 0]
    /\ WriteAllCommon([buf |-> s, pos |-> Len(s)], select_cmp, g).out.buf = s \o s

FirstRecord ==
    RecordAt(Len(WriteFormatTag(ComponentListTag, TRUE)),
             ReadFormatTag(saved.buf, Len(WriteFormatTag(ComponentListTag, TRUE)), <<>>, TRUE),
             ReadInt64(saved.buf,
                       ReadFormatTag(saved.buf, Len(WriteFormatTag(ComponentListTag, TRUE)),
                                     <<>>, TRUE).pos + 4))

\* a save was written without error, of one component at least
ComponentSaved ==
    saved.made /\ IsOk(saved.err) /\ MaskedEntries(saved.mask) # {}

\* C19 as it is stated: the closing tag </Name> is written only when the
\* serializer reports a failure; the data of a component whose serializer
\* succeeded is not followed by a closing tag.
C19_NoTagOnSuccess ==
    ComponentSaved =>
        ~BytesAt(saved.buf, FirstRecord.ClosePos, WriteFormatTag(FirstRecord.Name, FALSE))

\* what WriteComponent makes of the stream when the serializer of the
\* handler hdlr has returned r: the closing tag follows when r holds no
\* error, nothing is written when it holds one
ClosedIfSucceeded(r, hdlr, w) ==
    /\ w.err = r.err
    /\ SubSeq(w.out.buf, 1, Len(r.out.buf)) = r.out.buf
    /\ w.out.buf = IF IsOk(r.err) THEN r.out.buf \o WriteFormatTag(hdlr.Name, FALSE)
                   ELSE r.out.buf

\* C19. WriteComponent writes the component's closing tag </Name> exactly
\* when the handler's serializer succeeded: the data of every component of a
\* save is followed by the closing tag of its name, and a serializer's
\* failure leaves the stream without it.
C19_TagOnSuccess ==
    /\ ComponentSaved =>
          \A recs \in {RecordsOf(saved.buf)} :
              /\ Len(recs) = Cardinality(MaskedEntries(saved.mask))
              /\ recs[1] = FirstRecord
              /\ \A k \in 1..Len(recs) :
                    BytesAt(saved.buf, recs[k].DataOffset + recs[k].DataSize,
                            WriteFormatTag(recs[k].Name, FALSE))
    /\ \A type \in 1..Len(ComponentHandlers), e \in SerializerFailures \cup {"None"} :
          \A r \in {[out |-> SerializerReturned(ComponentHandlers[type]), err |-> e]} :
              ClosedIfSucceeded(r, ComponentHandlers[type],
                                WriteComponentEnd(r, ComponentHandlers[type], r.out.pos - 8))

\* a save of every component, the first of which is closed by its tag
C19_Witness ==
    /\ ComponentSaved
    /\ saved.mask = kSaveCmp_All
    /\ FirstRecord.Name = NameGameState
    /\ BytesAt(saved.buf, FirstRecord.ClosePos, WriteFormatTag(NameGameState, FALSE))

\* ReadScriptModules returned from reading a save whose modules are those
\* of the game, with their sizes, in another order
ReorderedModulesRead ==
    /\ rd.last.called
    /\ rd.last.handler = "ReadScriptModules"
    /\ tamper.kind = "modules_reordered"
    /\ rd.version >= kSvgVersion_Cmp_64bit
    /\ rd.last.info.Version >= kScriptModulesSvgVersion_36200

\* C20. In ReadScriptModules (component version >= 36200) the data length of
\* a saved module is asserted against the data size of the game's module of
\* the same name, wherever the module is in the save: a save whose modules
\* are the game's modules in another order, with unchanged data sizes, is
\* read without error and without any mismatch flag.
C20_SizeOfNamedModule ==
    ReorderedModulesRead =>
        /\ rd.last.err = "None"
        /\ rd.r.RestoreFlags \cap ResultBits = {}

\* the read of the reordered modules failed on the size of a module,
\* no mismatch being permitted
C20_Witness ==
    /\ ReorderedModulesRead
    /\ rd.r.RestoreFlags = {}
    /\ rd.last.err = "GameContentAssertion"
    /\ rd.result = "ComponentUnserialization"

\* ReadScriptModules returned from reading a save that lacks a module of
\* the game: one that the game has under another name now, or one that was
\* added to the game
MissingModuleRead ==
    /\ rd.last.called
    /\ rd.last.handler = "ReadScriptModules"
    /\ tamper.kind \in {"module_renamed", "module_added"}

\* C21 as it is stated: a game module absent from the save makes
\* ReadScriptModules fail with GameContentAssertion, whatever the restoration
\* flags are.
C21_AlwaysAssertion ==
    MissingModuleRead => rd.last.err = "GameContentAssertion"

\* the save holds fewer modules than the game, which the caller permits
\* without having asked for ClearData
FewerModulesPermitted ==
    /\ tamper.kind = "module_added"
    /\ kSaveRestore_AllowMismatchLess \in rd.r.RestoreFlags
    /\ kSaveRestore_ClearData \notin rd.r.RestoreFlags

\* C21. ReadScriptModules never succeeds when a module of the game is absent
\* from the save. It fails with GameContentAssertion, except that a save of
\* fewer modules than the game has, read with AllowMismatchLess and without
\* ClearData, fails earlier, in the assertion on the number of modules, with
\* GameContentAssert_RequireClearReload.
C21_MissingModule ==
    MissingModuleRead =>
        /\ rd.pc = "done"
        /\ rd.result = "ComponentUnserialization"
        /\ rd.last.err = IF FewerModulesPermitted THEN "GameContentAssert_RequireClearReload"
                         ELSE "GameContentAssertion"

\* every permission was given: the number of modules was accepted, every
\* module of the save was read, and the module that the save lacks was
\* found missing
C21_Witness ==
    /\ MissingModuleRead
    /\ tamper.kind = "module_added"
    /\ PermissionBits \subseteq rd.r.RestoreFlags
    /\ kSaveRestore_MissingDataInSave \in rd.r.RestoreFlags
    /\ Cardinality(rd.r.ScriptModules) = Len(saved.g.modules)
    /\ rd.last.err = "GameContentAssertion"

\* the component that ReadComponent has read bears a registered name, and no
\* handler of that name is selected
NoHandlerSelected ==
    /\ HandlerSought
    /\ HandlersNamed(rd.last.info.Name) # <<>>
    /\ NamedEntries(rd.last.info.Name, rd.mask) = {}

\* where the data of the component that was read end by their declared length
DeclaredEnd == rd.last.info.DataOffset + rd.last.info.DataSize

\* what ReadComponent made of a component that it skipped: the stream was
\* moved by the declared length and the closing tag examined there; a length
\* that leads out of the stream is a ComponentSizeMismatch
SkipOutcome ==
    IF DeclaredEnd \in 0..Len(stream)
    THEN /\ rd.last.test_pos = DeclaredEnd
         /\ rd.last.closing
         /\ IF BytesAt(stream, DeclaredEnd, WriteFormatTag(rd.last.info.Name, FALSE))
            THEN /\ rd.last.err = "None"
                 /\ rd.last.end_pos = DeclaredEnd + Len(WriteFormatTag(rd.last.info.Name, FALSE))
            ELSE rd.last.err = "ComponentClosingTagFormat"
    ELSE /\ rd.last.err = "ComponentSizeMismatch"
         /\ ~rd.last.closing

LimitAsserted == acall.fn = "AssertCompatLimit"

\* C23. Limit assertion: AssertCompatLimit fails, with IncompatibleEngine, if
\* and only if the saved count is greater than the engine's maximum; the
\* restoration flags have no part in its outcome and are left as they were.
C23_Limit ==
    LimitAsserted =>
        /\ acall.ok = ~(acall.new_val > acall.original_val)
        /\ acall.err = IF acall.new_val > acall.original_val THEN "IncompatibleEngine"
                       ELSE "None"
        /\ aflags = acall.flags
        /\ acall.count = acall.count_before

\* a count over the maximum was refused although every tolerance was
\* permitted and a mismatch was recorded before
C23_Witness ==
    /\ LimitAsserted
    /\ PermissionBits \subseteq acall.flags
    /\ kSaveRestore_ExtraDataInSave \in acall.flags
    /\ acall.new_val = acall.original_val + 1
    /\ ~acall.ok
    /\ acall.err = "IncompatibleEngine"

\* ReadRoomStates returned from reading room states that were damaged
DamagedRoomsRead ==
    /\ rd.last.called
    /\ rd.last.handler = "ReadRoomStates"
    /\ tamper.kind \in {"room_id", "room_tag"}

\* the rooms whose status holds a state that was read from the save
RoomsRead == {i \in 0..(MAX_ROOMS - 1) : game.rooms[i + 1].valid}

\* C24. ReadRoomStates never accesses a room status outside the room table:
\* an entry of id -1 is passed over without a state being read, any other
\* id outside 0 .. MAX_ROOMS-1 makes the read fail with IncompatibleEngine
\* before a room status is read for it, and the state of an accepted id must
\* stand between an opening and a closing RoomState tag or the read fails
\* with InconsistentFormat.
C24_RoomTable ==
    DamagedRoomsRead =>
        /\ "rooms" \notin rd.oob
        /\ (tamper.kind = "room_id" /\ tamper.value \notin 0..(MAX_ROOMS - 1)) =>
              /\ rd.last.err = "IncompatibleEngine"
              /\ RoomsRead = {}
        /\ (tamper.kind = "room_id" /\ tamper.value \in 0..(MAX_ROOMS - 1)) =>
              /\ rd.last.err = "None"
              /\ RoomsRead = {tamper.value}
              /\ game.rooms[tamper.value + 1].state = saved.g.rooms[1].state
        /\ tamper.kind = "room_tag" =>
              /\ rd.last.err = "InconsistentFormat"
              /\ RoomsRead \subseteq {0}

\* the id of a room state was replaced by one below the range, and the read
\* failed without a room status having been read
C24_Witness ==
    /\ DamagedRoomsRead
    /\ tamper.kind = "room_id"
    /\ tamper.value = -2
    /\ rd.last.err = "IncompatibleEngine"
    /\ RoomsRead = {}
    /\ rd.result = "ComponentUnserialization"

\* the sets of flags that WriteDynamicSprites and WriteObjectSprites match
MatchFlagChoices == {{SPF_DYNAMICALLOC}, {SPF_DYNAMICALLOC, SPF_OBJECTOWNED}}

\* the sprite slots >= 1 of the game g whose flags hold every bit of match_flags
MatchingSlots(g, match_flags) ==
    {i \in 1..(Len(g.sprites) - 1) :
        \A b \in match_flags : (Low31(g.sprites[i + 1].flags) \div b) % 2 = 1}

\* the size of a triple: index, flags, bitmap
TripleSize == 8 + BitmapSize

\* the index that the k-th triple (from 1) after the header at ref_pos holds
TripleIndex(s, ref_pos, k) == ReadInt32(s, ref_pos + 8 + (k - 1) * TripleSize)

\* w is what WriteDynamicSpritesImpl left of a stream that it was given at
\* the position ref_pos, for the n slots of g that match: the header holds n
\* and the largest index, n triples follow, the cursor is after the last one
SpritesWritten(w, ref_pos, g, slots, n) ==
    /\ ReadInt32(w.buf, ref_pos) = n
    /\ Len(w.buf) = ref_pos + 8 + n * TripleSize
    /\ w.pos = Len(w.buf)
    /\ {TripleIndex(w.buf, ref_pos, k) : k \in 1..n} = slots
    /\ \A k \in 1..n :
          /\ k > 1 => TripleIndex(w.buf, ref_pos, k - 1) < TripleIndex(w.buf, ref_pos, k)
          /\ BytesAt(w.buf, ref_pos + 12 + (k - 1) * TripleSize,
                     WriteInt32(g.sprites[TripleIndex(w.buf, ref_pos, k) + 1].flags)
                     \o serialize_bitmap(g.sprites[TripleIndex(w.buf, ref_pos, k) + 1].bitmap))
    /\ ReadInt32(w.buf, ref_pos + 4) =
          IF n = 0 THEN 1 ELSE TripleIndex(w.buf, ref_pos, n)

\* C25. After WriteDynamicSpritesImpl returns, the header holds the number of
\* (index, flags, bitmap) triples written, which is the number of sprite
\* slots >= 1 whose flags hold every bit of the match mask, and the largest
\* index written (1 when none was written); the cursor is at the end of the
\* last triple. It is so for the game as it is in every state, sprites
\* disposed of before a restore included, in a new stream and after the bytes
\* of another one.
C25_SpriteHeader ==
    \A match_flags \in MatchFlagChoices, ref_pos \in {0, Len(stream)} :
        SpritesWritten(
            WriteDynamicSpritesImpl([buf |-> SubSeq(stream, 1, ref_pos), pos |-> ref_pos],
                                    game, match_flags),
            ref_pos, game, MatchingSlots(game, match_flags),
            Cardinality(MatchingSlots(game, match_flags)))

\* a game with two dynamic sprites one of which is owned by an object, saved
\* with its dynamic sprites only: the header of the component's data holds
\* 2 and 3
C25_Witness ==
    /\ saved.made /\ IsOk(saved.err)
    /\ saved.mask = kSaveCmp_DynamicSprites
    /\ game = saved.g
    /\ Cardinality(MatchingSlots(game, {SPF_DYNAMICALLOC})) = 2
    /\ Cardinality(MatchingSlots(game, {SPF_DYNAMICALLOC, SPF_OBJECTOWNED})) = 1
    /\ ReadInt32(saved.buf, FirstRecord.DataOffset) = 2
    /\ ReadInt32(saved.buf, FirstRecord.DataOffset + 4) = 3

\* the positions (0-based) of the ">" of the stream s from position from on
ClosersFrom(s, from) == {q \in from..(Len(s) - 1) : s[q + 1] = GT}

\* what a tag read at position pos of s is by the format alone: whether the
\* prefix ("<", or "</" for a closing tag) stands there and a ">" follows,
\* and the bytes between the prefix and the first ">"
TagAt(s, pos, open, from, closers) ==
    [ok |-> /\ pos < Len(s) /\ s[pos + 1] = LT
            /\ open \/ (pos + 1 < Len(s) /\ s[pos + 2] = SLASH)
            /\ closers # {},
     tag |-> IF closers = {} THEN <<>>
             ELSE SubSeq(s, from + 1, CHOOSE q \in closers : \A q2 \in closers : q <= q2),
     pos |-> IF closers = {} THEN Len(s)
             ELSE 1 + CHOOSE q \in closers : \A q2 \in closers : q <= q2]

\* ReadFormatTag at position pos of s gives what the format says
TagReadAsFormatted(s, pos, open, r, t) ==
    /\ r.ok = t.ok
    /\ t.ok => (r.tag = t.tag /\ r.pos = t.pos)

\* the positions where the restore has read tags or is about to: the start
\* of the stream, the current position, the opening tag of the component
\* read last and the position after its data, and the end of the stream
TagPositions ==
    {0, rd.pos, Len(stream)}
        \cup (IF rd.last.called THEN {rd.last.info.Offset} ELSE {})
        \cup (IF rd.last.test_pos >= 0 THEN {rd.last.test_pos} ELSE {})

\* the names that tags are written with: those of the list, of the
\* components and of a room state, the empty one, and one that holds the
\* characters of a prefix
TagNames ==
    {ComponentListTag, TagRoomState, <<>>, <<SLASH, LT, Ord("A")>>}
        \cup {ComponentHandlers[i].Name : i \in 1..Len(ComponentHandlers)}

\* a tag that was written is read back with its name, and an opening tag is
\* not found where the closing tag of the same name stands
TagRoundTrip(name) ==
    /\ \A open \in BOOLEAN :
          ReadFormatTag(WriteFormatTag(name, open), 0, <<>>, open) =
              [ok |-> TRUE, tag |-> name, pos |-> Len(WriteFormatTag(name, open))]
    /\ ~AssertFormatTag(WriteFormatTag(name, FALSE), 0, name, TRUE).ok
    /\ AssertFormatTag(WriteFormatTag(name, TRUE), 0, name, TRUE).ok

\* C26. ReadFormatTag returns false exactly when the first byte is not "<",
\* or (for a closing tag) the second byte is not "/", or the stream ends
\* before a ">" is read; otherwise it returns true with the name equal to the
\* bytes between the prefix and the first ">". Hence a name without ">" that
\* WriteFormatTag wrote is read back with the same open flag, and
\* AssertFormatTag with open = true fails on the closing tag of the same name.
C26_TagFormat ==
    /\ \A pos \in TagPositions, open \in BOOLEAN :
          TagReadAsFormatted(stream, pos, open, ReadFormatTag(stream, pos, <<>>, open),
              TagAt(stream, pos, open, pos + (IF open THEN 1 ELSE 2),
                    ClosersFrom(stream, pos + (IF open THEN 1 ELSE 2))))
    /\ \A name \in TagNames : TagRoundTrip(name)

\* a stream was cut inside the closing tag of a component: its prefix "</"
\* was read, and the stream ended before a ">"
C26_Witness ==
    /\ tamper.kind = "truncate"
    /\ rd.last.closing
    /\ rd.last.err = "ComponentClosingTagFormat"
    /\ BytesAt(stream, rd.last.test_pos, <<LT, SLASH>>)
    /\ ClosersFrom(stream, rd.last.test_pos) = {}
    /\ ~ReadFormatTag(stream, rd.last.test_pos, <<>>, FALSE).ok

----------------------------------------------------------------------------
(* The assertion with the default mismatch handling                        *)

\* a call of the 4-argument AssertGameContent on two different counts
DefaultMismatchAsserted ==
    /\ acall.fn = "AssertGameContentDefault"
    /\ acall.new_val # acall.original_val

\* C27: the 4-argument AssertGameContent fails with GameContentAssertion on
\* every mismatch of the two counts, whatever else the program's state is.
C27_DefaultAlwaysFails ==
    DefaultMismatchAsserted => ~acall.ok /\ acall.err = "GameContentAssertion"

\* a default assertion on two different counts returned success: its
\* uninitialized flags happened to hold the permission for the mismatch
C27_Witness ==
    /\ DefaultMismatchAsserted
    /\ acall.ok
    /\ acall.flags # {}

----------------------------------------------------------------------------
(* Streams whose records declare another payload length: the loop of       *)
(* ReadAll is run to its end                                               *)

\* the lengths a record of a stream may declare instead of its own: none,
\* one byte back, back to its own opening tag, or back to the closing tag of
\* a record before it
DeclaredLengths(recs, k) ==
    {0, -1, recs[k].Offset - recs[k].DataOffset}
        \cup {recs[j].ClosePos - recs[k].DataOffset : j \in 1..(k - 1)}

\* A record of the stream is given another declared length.
DeclareLength ==
    /\ Unaltered
    /\ \E recs \in {RecordsOf(stream)} :
           \E k \in 1..Len(recs) :
           \E v \in DeclaredLengths(recs, k) :
              /\ v # recs[k].DataSize
              /\ stream' = Overwrite(stream, recs[k].SizePos, WriteInt64(v))
              /\ tamper' = [kind |-> "declared", at |-> k, value |-> v]
    /\ UNCHANGED <<game, saved, rd, aflags, acall>>

NextLengths ==
    \/ Save(kSaveCmp_All)
    \/ Save(kSaveCmp_DynamicSprites \cup kSaveCmp_ObjectSprites)
    \/ DeclareLength
    \/ ReadAllBeginAltered
    \/ ReadAllStep

\* an iteration of the loop of a restore that selects no component
SkippingStep == rd.mask = kSaveCmp_None /\ ReadAllStep

\* ReadAll is a loop of one thread: once begun, it takes its next iteration.
\* The restores that select no component are the ones followed to their end.
SpecLengths == InitAltered /\ [][NextLengths]_vars /\ WF_vars(SkippingStep)

\* C28: ReadAll terminates on every stream, here for the selection mask that
\* is empty: a restore that entered the loop over the components leaves it,
\* with success or with an error, whatever lengths the records declare.
C28_Terminates == (rd.pc = "loop" /\ rd.mask = kSaveCmp_None) ~> (rd.pc = "done")

\* a record that was skipped over its declared length left the stream at
\* its own opening tag: the next iteration reads the same record again
C28_Witness ==
    /\ rd.pc = "loop"
    /\ rd.mask = kSaveCmp_None
    /\ tamper.kind = "declared"
    /\ tamper.value < 0
    /\ rd.last.called
    /\ rd.last.skipped
    /\ IsOk(rd.last.err)
    /\ rd.pos = rd.last.info.Offset

----------------------------------------------------------------------------
(* The restoration flags over the assertions of one restore                *)

----------------------------------------------------------------------------
(* The number of surfaces that a save declares                             *)

\* ReadDynamicSurfaces was called by the step, on a save that declares
\* another number of surfaces than the engine wrote
SurfaceCountRead ==
    /\ tamper.kind = "surface_count"
    /\ rd.last.called
    /\ rd.last.handler = "ReadDynamicSurfaces"

\* the record "Dynamic Surfaces" as it was written
SurfacesWritten ==
    CHOOSE rec \in SeqRange(RecordsOf(saved.buf)) : rec.Name = NameDynamicSurfaces

\* C30: ReadDynamicSurfaces uses the declared number of surfaces for the
\* capacity check only: for a number up to MAX_DYNAMIC_SURFACES it reads the
\* MAX_DYNAMIC_SURFACES presence entries that were written, to the end of the
\* component's data, and stages a list of MAX_DYNAMIC_SURFACES surfaces, those
\* of the saved game; for a greater number it fails with IncompatibleEngine
\* and stages nothing.
C30_SurfaceCount ==
    [][(rd.pc = "loop" /\ rd'.last # rd.last /\ SurfaceCountRead') =>
          IF tamper.value <= MAX_DYNAMIC_SURFACES
          THEN /\ rd'.last.err = "None"
               /\ rd'.last.test_pos = rd'.last.info.DataOffset + SurfacesWritten.DataSize
               /\ Len(rd'.r.DynamicSurfaces) = MAX_DYNAMIC_SURFACES
               /\ rd'.r.DynamicSurfaces = saved.g.dynamicallyCreatedSurfaces
          ELSE /\ rd'.last.err = "IncompatibleEngine"
               /\ rd'.r = rd.r
               /\ rd'.r.DynamicSurfaces = <<>>
               /\ rd'.pc = "done"]_vars

\* a save that declares no surface was read: the list of the engine's size
\* was staged all the same, a surface of the saved game in it
C30_Witness ==
    /\ SurfaceCountRead
    /\ tamper.value = 0
    /\ IsOk(rd.last.err)
    /\ Len(rd.r.DynamicSurfaces) = MAX_DYNAMIC_SURFACES
    /\ \E i \in 1..MAX_DYNAMIC_SURFACES : rd.r.DynamicSurfaces[i] # 0

============================================================================
